---- MODULE Spec2Model ----
(***************************************************************************)
(* A model of the diff-driven review core of code-review-agent:            *)
(*   agents/analyzers/utils.py      filtering, deduplication, chunking     *)
(*   agents/analyzers/pipeline.py   AnalysisPipeline and its pre/post      *)
(*                                  processors                             *)
(*   agents/base_agent.py           BaseAgent.review and the patch mapper  *)
(*   agents/langgraph_agent.py      _analyze_single_file                   *)
(*   tasks.py                       analyze_pr_task                        *)
(*                                                                         *)
(* Strings the code inspects (descriptions, patch lines) are sequences of  *)
(* one-character strings, so that lower(), slicing, startswith() and the   *)
(* substring test are computed as Python computes them.  Strings the code  *)
(* only carries (suggestions, names) are plain strings.                    *)
(***************************************************************************)
EXTENDS Integers, Sequences, FiniteSets, TLC

\* ------------------------------------------------------------------------
\* Text helpers (Python str operations)
\* ------------------------------------------------------------------------

\* the upper-case letters and their lower-case forms
UpperToLower ==
  [ A |-> "a", B |-> "b", C |-> "c", D |-> "d", E |-> "e", F |-> "f", G |-> "g",
    H |-> "h", I |-> "i", J |-> "j", K |-> "k", L |-> "l", M |-> "m", N |-> "n",
    O |-> "o", P |-> "p", Q |-> "q", R |-> "r", S |-> "s", T |-> "t", U |-> "u",
    V |-> "v", W |-> "w", X |-> "x", Y |-> "y", Z |-> "z" ]

\* str.lower() on one character
LowerChar(c) == IF c \in DOMAIN UpperToLower THEN UpperToLower[c] ELSE c

\* str.lower()
Lower(s) == [i \in 1..Len(s) |-> LowerChar(s[i])]

\* s[:n]
Take(s, n) == IF Len(s) <= n THEN s ELSE SubSeq(s, 1, n)

\* s[n:]
Drop(s, n) == IF Len(s) <= n THEN <<>> ELSE SubSeq(s, n + 1, Len(s))

\* s.startswith(p)
StartsWith(s, p) == Len(p) <= Len(s) /\ SubSeq(s, 1, Len(p)) = p

\* p in s  (substring test)
Contains(s, p) ==
  \E i \in 0..(Len(s) - Len(p)) : SubSeq(s, i + 1, i + Len(p)) = p

Repeat(c, n) == [i \in 1..n |-> c]

\* All lists over S of length at most n
SeqsUpTo(S, n) == UNION {[1..m -> S] : m \in 0..n}

\* set(list)
ToSet(s) == {s[i] : i \in 1..Len(s)}

Min(a, b) == IF a <= b THEN a ELSE b

Max(a, b) == IF a >= b THEN a ELSE b

\* ------------------------------------------------------------------------
\* Generic phrase constants (utils.py)
\* ------------------------------------------------------------------------

BUG_GENERIC_PHRASES ==
  << <<"m","i","g","h","t"," ","h","a","v","e"," ","a","n"," ","i","s","s","u","e">>,
     <<"c","o","u","l","d"," ","b","e"," ","i","m","p","r","o","v","e","d">>,
     <<"m","a","y"," ","n","e","e","d"," ","r","e","v","i","e","w">>,
     <<"p","o","t","e","n","t","i","a","l"," ","p","r","o","b","l","e","m">>,
     <<"u","n","c","l","e","a","r"," ","c","o","d","e">> >>

PERFORMANCE_GENERIC_PHRASES ==
  << <<"m","i","g","h","t"," ","b","e"," ","s","l","o","w">>,
     <<"c","o","u","l","d"," ","b","e"," ","o","p","t","i","m","i","z","e","d">>,
     <<"m","a","y"," ","a","f","f","e","c","t"," ","p","e","r","f","o","r","m","a","n","c","e">>,
     <<"p","o","t","e","n","t","i","a","l"," ","o","p","t","i","m","i","z","a","t","i","o","n">>,
     <<"u","n","c","l","e","a","r"," ","p","e","r","f","o","r","m","a","n","c","e">> >>

BEST_PRACTICES_GENERIC_PHRASES ==
  << <<"c","o","u","l","d"," ","b","e"," ","i","m","p","r","o","v","e","d">>,
     <<"m","a","y"," ","b","e"," ","b","e","t","t","e","r">>,
     <<"c","o","n","s","i","d","e","r"," ","r","e","f","a","c","t","o","r","i","n","g">>,
     <<"u","n","c","l","e","a","r"," ","n","a","m","i","n","g">>,
     <<"g","e","n","e","r","a","l"," ","i","m","p","r","o","v","e","m","e","n","t">> >>

\* ------------------------------------------------------------------------
\* Issue values the analyzers of the model may return.  An issue is a Python
\* dict: a function from the keys it has to their values.
\* ------------------------------------------------------------------------

DescUnsafe ==
  <<"u","n","s","a","f","e"," ","d","i","c","t"," ","a","c","c","e","s","s"," ","o","n"," ","k","e","y"," ","X">>

DescUnsafeCaps ==
  <<"U","n","s","a","f","e"," ","D","i","c","t"," ","A","c","c","e","s","s"," ","O","n"," ","K","e","y"," ","X">>

DescGenericBug ==
  <<"T","h","i","s"," ","M","i","g","h","t"," ","H","a","v","e"," ","A","n"," ","I","s","s","u","e">>

DescGenericPerf ==
  <<"l","o","o","p"," ","c","o","u","l","d"," ","b","e"," ","o","p","t","i","m","i","z","e","d">>

\* Two descriptions of 51 characters that agree on their first 50
DescLongA == Repeat("x", 50) \o <<"a">>

DescLongB == Repeat("x", 50) \o <<"b">>

\* dict key access helpers
Has(issue, key) == key \in DOMAIN issue

\* issue.get(key, default)
Get(issue, key, default) == IF Has(issue, key) THEN issue[key] ELSE default

IssueOk ==
  [line |-> 6, description |-> DescUnsafe, suggestion |-> "use .get()", type |-> "bug"]

\* same line, same description up to letter case, another suggestion
IssueOkCaps ==
  [line |-> 6, description |-> DescUnsafeCaps, suggestion |-> "check the key first",
   type |-> "bug"]

\* same line, same description, another suggestion
IssueOkOtherFix ==
  [line |-> 6, description |-> DescUnsafe, suggestion |-> "guard the key", type |-> "bug"]

\* line, description and suggestion, but no type
IssueNoType ==
  [line |-> 6, description |-> DescUnsafe, suggestion |-> "use .get()"]

IssueOffLine ==
  [line |-> 8, description |-> DescUnsafe, suggestion |-> "use .get()", type |-> "bug"]

IssueNoSuggestion ==
  [line |-> 6, description |-> DescUnsafe, type |-> "bug"]

IssueNoLine ==
  [description |-> DescUnsafe, suggestion |-> "use .get()", type |-> "bug"]

IssueNoDescription ==
  [line |-> 6, suggestion |-> "use .get()", type |-> "bug"]

IssueGenericBug ==
  [line |-> 6, description |-> DescGenericBug, suggestion |-> "review it", type |-> "bug"]

IssueGenericPerf ==
  [line |-> 6, description |-> DescGenericPerf, suggestion |-> "hoist the call",
   type |-> "performance"]

IssueLongA ==
  [line |-> 6, description |-> DescLongA, suggestion |-> "fix a", type |-> "style"]

IssueLongB ==
  [line |-> 6, description |-> DescLongB, suggestion |-> "fix b", type |-> "style"]

\* an issue with every key the code asks for, but with an empty description,
\* an empty suggestion and a type outside the four categories
IssueOutsideModel ==
  [type |-> "security", line |-> 6, description |-> <<>>, suggestion |-> ""]

\* ------------------------------------------------------------------------
\* utils.py
\* ------------------------------------------------------------------------

\* issue.get('line') in set(lines): a missing line is None, in no set of ints
LineIn(issue, lines) == Has(issue, "line") /\ issue["line"] \in ToSet(lines)

RECURSIVE FilterFrom(_, _, _)
FilterFrom(issues, i, lines) ==
  IF i > Len(issues) THEN <<>>
  ELSE (IF LineIn(issues[i], lines) THEN <<issues[i]>> ELSE <<>>)
       \o FilterFrom(issues, i + 1, lines)

filter_issues_by_lines(issues, target_lines) ==
  IF target_lines = <<>> THEN <<>> ELSE FilterFrom(issues, 1, target_lines)

SIGNATURE_PREFIX == 50

\* a faulty variant of the signature, without .lower()
SignatureCaseSensitive(issue) ==
  << Get(issue, "line", 0), Take(Get(issue, "description", <<>>), SIGNATURE_PREFIX) >>

\* (issue.get('line', 0), issue.get('description', '')[:50].lower())
Signature(issue) ==
  << Get(issue, "line", 0),
     Lower(Take(Get(issue, "description", <<>>), SIGNATURE_PREFIX)) >>

\* a faulty variant of the loop, which keeps the last issue of each signature
RECURSIVE DedupKeepingLast(_, _, _)
DedupKeepingLast(issues, i, seen) ==
  IF i > Len(issues) THEN <<>>
  ELSE IF \E j \in (i + 1)..Len(issues) :
            << Get(issues[j], "line", 0),
               Lower(Take(Get(issues[j], "description", <<>>), SIGNATURE_PREFIX)) >>
            = << Get(issues[i], "line", 0),
                 Lower(Take(Get(issues[i], "description", <<>>), SIGNATURE_PREFIX)) >>
       THEN DedupKeepingLast(issues, i + 1, seen)
       ELSE <<issues[i]>> \o DedupKeepingLast(issues, i + 1, seen)

RECURSIVE DedupFrom(_, _, _)
DedupFrom(issues, i, seen) ==
  IF i > Len(issues) THEN <<>>
  ELSE IF Signature(issues[i]) \in seen
       THEN DedupFrom(issues, i + 1, seen)
       ELSE <<issues[i]>> \o DedupFrom(issues, i + 1, seen \cup {Signature(issues[i])})

deduplicate_issues(issues) == DedupFrom(issues, 1, {})

is_generic_issue(description, generic_phrases) ==
  LET description_lower == Lower(description)
  IN  \E p \in 1..Len(generic_phrases) : Contains(description_lower, generic_phrases[p])

RequiredKeys == {"line", "description", "suggestion"}

\* a faulty variant of the loop body, without the required-keys test
KeepsIgnoringRequired(issue, changed_lines, generic_phrases) ==
  /\ LineIn(issue, changed_lines)
  /\ ~is_generic_issue(Get(issue, "description", <<>>), generic_phrases)

\* a faulty variant of the loop body, without the changed-line test
KeepsIgnoringLines(issue, changed_lines, generic_phrases) ==
  /\ ~is_generic_issue(Get(issue, "description", <<>>), generic_phrases)
  /\ \A key \in RequiredKeys : Has(issue, key)

\* the loop body of post_process_issues: TRUE when the issue is appended
Keeps(issue, changed_lines, generic_phrases) ==
  /\ LineIn(issue, changed_lines)
  /\ ~is_generic_issue(Get(issue, "description", <<>>), generic_phrases)
  /\ \A key \in RequiredKeys : Has(issue, key)

RECURSIVE KeepFrom(_, _, _, _)
KeepFrom(issues, i, changed_lines, generic_phrases) ==
  IF i > Len(issues) THEN <<>>
  ELSE (IF Keeps(issues[i], changed_lines, generic_phrases) THEN <<issues[i]>> ELSE <<>>)
       \o KeepFrom(issues, i + 1, changed_lines, generic_phrases)

post_process_issues(issues, changed_lines, generic_phrases) ==
  deduplicate_issues(KeepFrom(issues, 1, changed_lines, generic_phrases))

\* ------------------------------------------------------------------------
\* pipeline.py: AnalysisPostprocessor
\* An analyzer_results dict is an insertion-ordered list of
\* [type |-> analyzer_type, issues |-> list] entries with distinct types.
\* ------------------------------------------------------------------------

\* a faulty variant of the lookup, which gives every analyzer all three lists
GenericPhraseMapShared(analyzer_type) ==
  BUG_GENERIC_PHRASES \o PERFORMANCE_GENERIC_PHRASES \o BEST_PRACTICES_GENERIC_PHRASES

\* AnalysisPostprocessor.GENERIC_PHRASE_MAP.get(analyzer_type, [])
GENERIC_PHRASE_MAP(analyzer_type) ==
  CASE analyzer_type = "bug" -> BUG_GENERIC_PHRASES
    [] analyzer_type = "performance" -> PERFORMANCE_GENERIC_PHRASES
    [] analyzer_type = "best_practice" -> BEST_PRACTICES_GENERIC_PHRASES
    [] OTHER -> <<>>

RECURSIVE ProcessedFrom(_, _, _)
ProcessedFrom(analyzer_results, i, changed_lines) ==
  IF i > Len(analyzer_results) THEN <<>>
  ELSE post_process_issues(analyzer_results[i].issues, changed_lines,
                           GENERIC_PHRASE_MAP(analyzer_results[i].type))
       \o ProcessedFrom(analyzer_results, i + 1, changed_lines)

process_analyzer_results(analyzer_results, changed_lines) ==
  deduplicate_issues(ProcessedFrom(analyzer_results, 1, changed_lines))

\* the loop body of validate_and_enrich_results: the copy with its metadata
Enrich(issue, metadata) ==
  [key \in DOMAIN issue \cup {"confidence", "file_language", "total_file_lines"} |->
     CASE key = "confidence" -> Get(issue, "confidence", "medium")
       [] key = "file_language" -> metadata.language
       [] key = "total_file_lines" -> metadata.total_lines
       [] OTHER -> issue[key]]

RECURSIVE EnrichFrom(_, _, _)
EnrichFrom(issues, i, metadata) ==
  IF i > Len(issues) THEN <<>>
  ELSE (IF \A key \in {"line", "description", "suggestion", "type"} : Has(issues[i], key)
        THEN <<Enrich(issues[i], metadata)>>
        ELSE <<>>)
       \o EnrichFrom(issues, i + 1, metadata)

validate_and_enrich_results(issues, metadata) == EnrichFrom(issues, 1, metadata)

\* ------------------------------------------------------------------------
\* utils.py: analyze_large_file_chunks.  The code is modelled by its number of
\* lines, a chunk by the range of file lines it holds.
\* ------------------------------------------------------------------------

CONTEXT_SIZE == 5

\* a faulty variant of the window start, which is not clamped to the first line
StartLineUnclamped(line_num) == line_num - CONTEXT_SIZE

start_line(line_num) == Max(1, line_num - CONTEXT_SIZE)

end_line(code_lines, line_num) == Min(code_lines, line_num + CONTEXT_SIZE)

\* the arguments of the analysis_func call for one changed line of a file of n
\* lines: the chunk, as the range of file lines it holds, and the chunk-local
\* changed_lines list
WindowCall(n, line_num) ==
  [code_range |-> <<start_line(line_num), end_line(n, line_num)>>,
   changed_lines |-> <<line_num - start_line(line_num) + 1>>]

\* issue['line'] = issue['line'] + start_line - 1, on every issue of one chunk
RemapChunk(chunk_issues, start) ==
  [i \in 1..Len(chunk_issues) |->
     [chunk_issues[i] EXCEPT !["line"] = @ + start - 1]]

\* issue['line'] raises KeyError on an issue without the key
RemapRaises(chunk_issues) ==
  \E i \in 1..Len(chunk_issues) : ~Has(chunk_issues[i], "line")

RECURSIVE ChunksFrom(_, _, _)
ChunksFrom(changed_lines, outs, i) ==
  IF i > Len(changed_lines) THEN <<>>
  ELSE RemapChunk(outs[i], start_line(changed_lines[i]))
       \o ChunksFrom(changed_lines, outs, i + 1)

\* the list analyze_large_file_chunks returns when its analysis calls return
\* outs[1], outs[2], ... in turn and no remap raises
analyze_large_file_chunks(changed_lines, outs) ==
  deduplicate_issues(ChunksFrom(changed_lines, outs, 1))

\* ------------------------------------------------------------------------
\* pipeline.py: AnalysisPreprocessor and AnalysisPipeline
\* ------------------------------------------------------------------------

LARGE_FILE_THRESHOLD == 500

\* a faulty variant of the test, which also chunks a file of exactly 500 lines
IsLargeFileInclusive(code_lines) == code_lines >= LARGE_FILE_THRESHOLD

\* len(code.split('\n')) > 500
is_large_file(code_lines) == code_lines > LARGE_FILE_THRESHOLD

\* context.get(key, []) on an insertion-ordered dict
ContextGet(context, key) ==
  IF \E i \in 1..Len(context) : context[i].type = key
  THEN context[CHOOSE i \in 1..Len(context) : context[i].type = key].issues
  ELSE <<>>

NoUpstream ==
  [lint_issues |-> <<>>, heuristic_issues |-> <<>>, bug_issues |-> <<>>,
   perf_issues |-> <<>>]

\* the upstream issue lists _call_pure_analyzer passes to analyzer.analyze,
\* by the branch the analyzer's class name selects
UpstreamArgs(kind, context) ==
  CASE kind = "bug" ->
         [NoUpstream EXCEPT !.lint_issues = ContextGet(context, "lint"),
                            !.heuristic_issues = ContextGet(context, "heuristic")]
    [] kind = "performance" ->
         [NoUpstream EXCEPT !.lint_issues = ContextGet(context, "lint"),
                            !.bug_issues = ContextGet(context, "bug")]
    [] kind = "best_practices" ->
         [NoUpstream EXCEPT !.lint_issues = ContextGet(context, "lint"),
                            !.bug_issues = ContextGet(context, "bug"),
                            !.perf_issues = ContextGet(context, "performance")]
    [] OTHER -> NoUpstream

\* the branch of _call_pure_analyzer the analyzer takes: it needs an analyze
\* attribute, and its lower-cased class name is searched for three words in turn
Branch(analyzer) ==
  LET name == Lower(analyzer.class)
  IN  IF ~analyzer.has_analyze THEN "none"
      ELSE IF Contains(name, <<"b","u","g">>) THEN "bug"
      ELSE IF Contains(name, <<"p","e","r","f","o","r","m","a","n","c","e">>) THEN "performance"
      ELSE IF Contains(name, <<"b","e","s","t","_","p","r","a","c","t","i","c","e","s">>) THEN "best_practices"
      ELSE "none"

\* _call_pure_analyzer reaches analyzer.analyze only in one of its three branches
Dispatched(analyzer) == Branch(analyzer) # "none"

\* the relevant_* lists an LLM agent's analyze builds from its upstream
\* arguments for code of at most 500 lines and hands to its LLM service: each
\* list filtered by the changed_lines argument of the call
RelevantArgs(upstream, lines) ==
  [lint_issues |-> filter_issues_by_lines(upstream.lint_issues, lines),
   heuristic_issues |-> filter_issues_by_lines(upstream.heuristic_issues, lines),
   bug_issues |-> filter_issues_by_lines(upstream.bug_issues, lines),
   perf_issues |-> filter_issues_by_lines(upstream.perf_issues, lines)]

\* one analyzer.analyze call as the analyzer sees it, with the context lists
\* that reach the LLM service behind it
AnalyzeCall(analyzer, code_range, lines, context) ==
  [type |-> analyzer.type,
   code_range |-> code_range,
   changed_lines |-> lines,
   context |-> context,
   upstream |-> UpstreamArgs(Branch(analyzer), context),
   relevant |-> RelevantArgs(UpstreamArgs(Branch(analyzer), context), lines)]

\* the calls analyze_large_file_chunks makes for changed lines 1..upto
ChunkCalls(analyzer, n, lines, context, upto) ==
  [i \in 1..upto |->
     AnalyzeCall(analyzer,
                 <<start_line(lines[i]), end_line(n, lines[i])>>,
                 <<lines[i] - start_line(lines[i]) + 1>>,
                 context)]

\* dict[key] = value on an insertion-ordered dict whose keys are distinct
DictSet(dict, key, value) == Append(dict, [type |-> key, issues |-> value])

\* ------------------------------------------------------------------------
\* Analyzer configurations and inputs of the model
\* ------------------------------------------------------------------------

LLMBugAgent ==
  [type |-> "bug", has_analyze |-> TRUE, class |-> <<"L","L","M","B","u","g","A","g","e","n","t">>]

LLMPerformanceAgent ==
  [type |-> "performance", has_analyze |-> TRUE, class |-> <<"L","L","M","P","e","r","f","o","r","m","a","n","c","e","A","g","e","n","t">>]

LLMBestPracticesAgent ==
  [type |-> "best_practice", has_analyze |-> TRUE, class |-> <<"L","L","M","B","e","s","t","P","r","a","c","t","i","c","e","s","A","g","e","n","t">>]

\* an analyzer registered under 'lint' whose class name selects the first branch
LintBugScanner ==
  [type |-> "lint", has_analyze |-> TRUE, class |-> <<"L","i","n","t","B","u","g","S","c","a","n","n","e","r">>]

\* the mapping of demo_pipeline_architecture.py
DemoAnalyzers == <<LLMBugAgent, LLMPerformanceAgent, LLMBestPracticesAgent>>

\* three analyzers A -> B -> C that are all invoked
ChainAnalyzers == <<LintBugScanner, LLMBugAgent, LLMPerformanceAgent>>

\* ------------------------------------------------------------------------
\* base_agent.py: the patch mapper.  A patch is the list patch.split('\n') of
\* its lines; the empty string splits into one empty line.
\* ------------------------------------------------------------------------

Digits == <<"0", "1", "2", "3", "4", "5", "6", "7", "8", "9">>

IsDigit(c) == \E d \in 1..Len(Digits) : Digits[d] = c

DigitValue(c) == (CHOOSE d \in 1..Len(Digits) : Digits[d] = c) - 1

\* int(text) for a text of decimal digits
RECURSIVE ToInt(_)
ToInt(text) ==
  IF text = <<>> THEN 0
  ELSE 10 * ToInt(SubSeq(text, 1, Len(text) - 1)) + DigitValue(text[Len(text)])

\* last position of the run of digits that starts at position i (i - 1: no digit)
RECURSIVE DigitRunEnd(_, _)
DigitRunEnd(s, i) ==
  IF i <= Len(s) /\ IsDigit(s[i]) THEN DigitRunEnd(s, i + 1) ELSE i - 1

\* position after an optional ',' at position i
SkipComma(s, i) == IF i <= Len(s) /\ s[i] = "," THEN i + 1 ELSE i

\* s has the text p at position i
HasAt(s, i, p) == i + Len(p) - 1 <= Len(s) /\ SubSeq(s, i, i + Len(p) - 1) = p

\* re.match(r'^@@ -\d+,?\d* \+(\d+),?\d* @@', line): group 1 as an int, or -1
\* when the line does not match.  Each \d run is matched greedily, which
\* decides the same matches and the same group as backtracking does.
HunkStart(line) ==
  IF ~HasAt(line, 1, <<"@","@"," ","-">>) THEN -1
  ELSE LET a_end == DigitRunEnd(line, 5)
           b_from == SkipComma(line, a_end + 1)
           b_end == DigitRunEnd(line, b_from)
           c_from == b_end + 3
           c_end == DigitRunEnd(line, c_from)
           d_from == SkipComma(line, c_end + 1)
           d_end == DigitRunEnd(line, d_from)
       IN  IF /\ a_end >= 5
              /\ HasAt(line, b_end + 1, <<" ","+">>)
              /\ c_end >= c_from
              /\ HasAt(line, d_end + 1, <<" ","@","@">>)
           THEN ToInt(SubSeq(line, c_from, c_end))
           ELSE -1

IsAddition(line) == StartsWith(line, <<"+">>) /\ ~StartsWith(line, <<"+", "+", "+">>)

IsDeletion(line) == StartsWith(line, <<"-">>) /\ ~StartsWith(line, <<"-", "-", "-">>)

\* a faulty variant of the loop, in which a deletion advances the cursor
RECURSIVE ScanChangedCountingDeletions(_, _, _)
ScanChangedCountingDeletions(patch, i, current_line) ==
  IF i > Len(patch) THEN <<>>
  ELSE IF HunkStart(patch[i]) >= 0
       THEN ScanChangedCountingDeletions(patch, i + 1, HunkStart(patch[i]) - 1)
  ELSE IF IsAddition(patch[i])
       THEN <<current_line + 1>> \o ScanChangedCountingDeletions(patch, i + 1, current_line + 1)
  ELSE IF ~StartsWith(patch[i], <<"\\">>)
       THEN ScanChangedCountingDeletions(patch, i + 1, current_line + 1)
  ELSE ScanChangedCountingDeletions(patch, i + 1, current_line)

\* the for loop of _extract_changed_lines from line i on: the additions' numbers
RECURSIVE ScanChanged(_, _, _)
ScanChanged(patch, i, current_line) ==
  IF i > Len(patch) THEN <<>>
  ELSE IF HunkStart(patch[i]) >= 0
       THEN ScanChanged(patch, i + 1, HunkStart(patch[i]) - 1)
  ELSE IF IsAddition(patch[i])
       THEN <<current_line + 1>> \o ScanChanged(patch, i + 1, current_line + 1)
  ELSE IF IsDeletion(patch[i])
       THEN ScanChanged(patch, i + 1, current_line)
  ELSE IF ~StartsWith(patch[i], <<"\\">>)
       THEN ScanChanged(patch, i + 1, current_line + 1)
  ELSE ScanChanged(patch, i + 1, current_line)

\* sorted(list(set(xs)))
RECURSIVE SortedSet(_)
SortedSet(S) ==
  IF S = {} THEN <<>>
  ELSE LET least == CHOOSE x \in S : \A y \in S : x <= y
       IN  <<least>> \o SortedSet(S \ {least})

EmptyPatch == << <<>> >>

_extract_changed_lines(patch) ==
  IF patch = EmptyPatch THEN <<>>
  ELSE SortedSet(ToSet(ScanChanged(patch, 1, 0)))

\* the patches of the model
PatchOneAddition ==
  << <<"@","@"," ","-","1",",","2"," ","+","1",",","3"," ","@","@">>,
     <<" ","l","i","n","e","1">>,
     <<"+","a","d","d","e","d","_","l","i","n","e">>,
     <<" ","l","i","n","e","2">> >>

PatchDeletionOnly ==
  << <<"@","@"," ","-","1",",","2"," ","+","1"," ","@","@">>,
     <<" ","l","i","n","e","1">>,
     <<"-","r","e","m","o","v","e","d","_","l","i","n","e">> >>

PatchTwoHunks ==
  << <<"@","@"," ","-","1",",","1"," ","+","1",",","2"," ","@","@">>,
     <<" ","l","i","n","e","1">>,
     <<"+","f","i","r","s","t">>,
     <<"@","@"," ","-","7",",","2"," ","+","8",",","2"," ","@","@">>,
     <<"-","o","l","d">>,
     <<"+","s","e","c","o","n","d">>,
     <<" ","l","i","n","e","9">> >>

\* the for loop of _extract_code_from_patch from line i on: code_lines
RECURSIVE CodeLinesFrom(_, _)
CodeLinesFrom(patch, i) ==
  IF i > Len(patch) THEN <<>>
  ELSE (IF \/ StartsWith(patch[i], <<"@","@">>)
           \/ StartsWith(patch[i], <<"+","+","+">>)
           \/ StartsWith(patch[i], <<"-","-","-">>)
           \/ StartsWith(patch[i], <<"\\">>)
           \/ StartsWith(patch[i], <<"d","i","f","f">>)
        THEN <<>>
        ELSE IF StartsWith(patch[i], <<"+">>)
        THEN <<Tail(patch[i])>>
        ELSE IF ~StartsWith(patch[i], <<"-">>) /\ patch[i] # <<>>
        THEN <<patch[i]>>
        ELSE <<>>)
       \o CodeLinesFrom(patch, i + 1)

\* '\n'.join(code_lines)
RECURSIVE JoinLines(_)
JoinLines(code_lines) ==
  IF code_lines = <<>> THEN <<>>
  ELSE IF Len(code_lines) = 1 THEN code_lines[1]
  ELSE code_lines[1] \o <<"\n">> \o JoinLines(Tail(code_lines))

\* text.split('\n')
RECURSIVE SplitLines(_)
SplitLines(text) ==
  IF \A c \in 1..Len(text) : text[c] # "\n" THEN <<text>>
  ELSE LET nl == CHOOSE c \in 1..Len(text) :
                   text[c] = "\n" /\ \A b \in 1..(c - 1) : text[b] # "\n"
       IN  <<SubSeq(text, 1, nl - 1)>> \o SplitLines(SubSeq(text, nl + 1, Len(text)))

_extract_code_from_patch(patch) ==
  IF patch = EmptyPatch THEN <<>> ELSE JoinLines(CodeLinesFrom(patch, 1))

\* patch lines
LineHunkAtOne == PatchOneAddition[1]

LineHunkAtEight == PatchTwoHunks[4]

LineHunkAtZero == <<"@","@"," ","-","1",",","2"," ","+","0",",","0"," ","@","@">>

LineContext == PatchOneAddition[2]

LineAdded == PatchOneAddition[3]

LineRemoved == PatchDeletionOnly[3]

LineMarker == <<"\\"," ","N","o"," ","n","e","w","l","i","n","e">>

LineFileNew == <<"+","+","+"," ","b","/","a","p","p",".","p","y">>

LineBare == <<"x"," ","="," ","1">>

PatchLinePool ==
  {LineHunkAtOne, LineHunkAtEight, LineHunkAtZero, LineContext, LineAdded,
   LineRemoved, LineMarker, LineFileNew}

\* ------------------------------------------------------------------------
\* linters/python_linter.py and code_quality.py.  What the ruff process prints
\* is an input: a list of findings [row, code, message] for ruff check, and for
\* ruff format a return code with the lines its diff removes.
\* ------------------------------------------------------------------------

IsAlpha(c) == c \in DOMAIN UpperToLower \/ \E u \in DOMAIN UpperToLower : UpperToLower[u] = c

\* self.rule_type_mapping.get(prefix, 'style')
rule_type_mapping(prefix) ==
  CASE prefix \in {<<"E">>, <<"W">>, <<"I">>, <<"N">>, <<"D">>, <<"Q">>} -> "style"
    [] prefix \in {<<"F">>, <<"B">>, <<"A">>, <<"T">>} -> "bug"
    [] prefix \in {<<"U", "P">>, <<"P", "E", "R", "F">>} -> "performance"
    [] prefix \in {<<"S">>, <<"S", "I", "M">>, <<"R", "E", "T">>, <<"A", "R", "G">>}
         -> "best_practice"
    [] OTHER -> "style"

_map_rule_to_type(rule_code) ==
  IF rule_code = <<>> THEN "style"
  ELSE rule_type_mapping(SelectSeq(rule_code, IsAlpha))

CodeF401 == <<"F", "4", "0", "1">>

CodeE501 == <<"E", "5", "0", "1">>

\* the rule codes of the model are in the suggestions table
_generate_suggestion(rule_code, message) ==
  CASE rule_code = CodeF401 -> "Remove the unused import or use it in your code"
    [] rule_code = CodeE501 -> "Break the line into multiple lines or use parentheses"
    [] OTHER -> <<"F","i","x",":"," ">> \o message

\* if changed_lines and line_number not in changed_lines: continue
SkippedByLinter(line_number, lines) ==
  lines # <<>> /\ line_number \notin ToSet(lines)

RECURSIVE ParseRuffFrom(_, _, _)
ParseRuffFrom(ruff_issues, i, lines) ==
  IF i > Len(ruff_issues) THEN <<>>
  ELSE (IF SkippedByLinter(ruff_issues[i].row, lines) THEN <<>>
        ELSE << [type |-> _map_rule_to_type(ruff_issues[i].code),
                 line |-> ruff_issues[i].row,
                 description |-> ruff_issues[i].message,
                 suggestion |-> _generate_suggestion(ruff_issues[i].code,
                                                     ruff_issues[i].message)] >>)
       \o ParseRuffFrom(ruff_issues, i + 1, lines)

_parse_ruff_check_output(ruff_issues, lines) == ParseRuffFrom(ruff_issues, 1, lines)

DescTrailing ==
  <<"T","r","a","i","l","i","n","g"," ","w","h","i","t","e","s","p","a","c","e"," ","d","e","t","e","c","t","e","d">>

DescFormatting ==
  <<"C","o","d","e"," ","f","o","r","m","a","t","t","i","n","g"," ","c","a","n"," ","b","e"," ","i","m","p","r","o","v","e","d">>

\* _parse_format_diff over the lines the diff removes: one issue per removed
\* line that is not skipped
RECURSIVE ParseDiffFrom(_, _, _)
ParseDiffFrom(removed, i, lines) ==
  IF i > Len(removed) THEN <<>>
  ELSE (IF SkippedByLinter(removed[i], lines) THEN <<>>
        ELSE << [type |-> "style", line |-> removed[i], description |-> DescTrailing,
                 suggestion |-> "Run ruff format to fix formatting"] >>)
       \o ParseDiffFrom(removed, i + 1, lines)

\* min(changed_lines) if changed_lines else 1   (the list is ascending)
FallbackLine(lines) == IF lines # <<>> THEN lines[1] ELSE 1

\* _run_ruff_format, lines 141-159
_run_ruff_format(format, lines) ==
  IF format.returncode = 1
  THEN IF ParseDiffFrom(format.removed, 1, lines) # <<>>
       THEN ParseDiffFrom(format.removed, 1, lines)
       ELSE << [type |-> "style", line |-> FallbackLine(lines),
                description |-> DescFormatting,
                suggestion |-> "Run ruff format to automatically fix formatting issues"] >>
  ELSE <<>>

\* PythonLinter.lint with ruff installed
lint(ruff_issues, format, lines) ==
  _parse_ruff_check_output(ruff_issues, lines) \o _run_ruff_format(format, lines)

\* CodeQualityAnalyzer._detect_language for the file names of the model, none
\* of which matches a migration pattern
_detect_language(filename) ==
  IF Len(filename) >= 3 /\ SubSeq(filename, Len(filename) - 2, Len(filename)) = <<".","p","y">>
  THEN "Python"
  ELSE "None"

\* CodeQualityAnalyzer.analyze: Python goes to the linter, a file of no known
\* language to _analyze_with_llm, which returns []
CodeQualityAnalyze(filename, ruff_issues, format, lines) ==
  IF _detect_language(filename) = "Python" THEN lint(ruff_issues, format, lines) ELSE <<>>

NameAppPy == <<"a","p","p",".","p","y">>

NameReadme == <<"R","E","A","D","M","E",".","m","d">>

\* ------------------------------------------------------------------------
\* State
\* ------------------------------------------------------------------------

VARIABLES
  \* AnalysisPipeline.analyze_file
  analyzers,         \* self.analyzers: insertion-ordered analyzer_type -> analyzer
  pc,                \* "ready" | "loop" | "done" | "raised"
  code_lines,        \* len(code.split('\n')) of the code argument
  changed_lines,     \* the changed_lines argument
  next_analyzer,     \* position of the for loop in self.analyzers
  analyzer_results,  \* analyzer_type -> issues, insertion-ordered
  context_issues,    \* analyzer_type -> issues, insertion-ordered
  calls,             \* the analyzer.analyze calls made so far, as the analyzers saw them
  raised_by,         \* analyzer_type whose analyze call raised, "" if none
  processed_issues,  \* result of step 3
  final_issues,      \* the list analyze_file returns
  \* process_analyzer_results on its own
  post_pc,           \* "ready" | "done": the call of process_analyzer_results
  post_results,      \* its analyzer_results argument
  post_changed,      \* its changed_lines argument
  post_out,          \* the list it returned
  \* analyze_pr_task and BaseAgent.review
  task_pc,           \* "queued" | "reviewing" | "returned" | "stored"
  task_state,        \* the state of the task in the result backend: the one last
                     \* given to update_state ("PENDING" before), then the one the
                     \* worker stores when the task function has returned
  task_return,       \* the dict analyze_pr_task returned
  review_analyzers,  \* BaseAgent.analyzers
  files_data,        \* BaseAgent.files_data
  file_index,        \* position of the outer for loop of review
  analyzer_index,    \* position of the inner for loop of review
  review_issues,     \* the list 'issues' of review for the current file
  file_reviews,      \* the FileReviews appended so far
  raised_in_file,    \* index of the file during which an analyzer raised, 0 if none
  stages_started,    \* number of analyzer.analyze calls review has made
  cancel_requested,  \* the cancellation signal of the specification was given
  \* LangGraphCodeReviewAgent._analyze_single_file
  graph_pc,          \* "idle" | "lint" | "heuristic" | "bug" | "performance" |
                     \* "best_practices" | "dedup" | "done"
  graph_file,        \* file_info
  graph_lint,        \* lint_issues
  graph_heuristic,   \* heuristic_issues
  graph_bug,         \* bug_issues
  graph_perf,        \* performance_issues
  all_issues,        \* all_issues
  graph_final,       \* the list _analyze_single_file returned
  invoked,           \* the stages whose analyzer was called
  raised,            \* the stages whose analyzer raised
  \* the patch mapper: _extract_changed_lines and _extract_code_from_patch
  diff_pc,           \* "idle" | "given" | "mapped" | "extracted"
  diff_patch,        \* the patch, split into lines
  diff_changed,      \* the list _extract_changed_lines returned
  diff_code,         \* the string _extract_code_from_patch returned
  \* analyze_large_file_chunks
  chunk_pc,          \* "idle" | "called" | "returned" | "raised"
  chunk_n,           \* len(code_lines)
  chunk_changed,     \* changed_lines
  chunk_outs,        \* what analysis_func returns for each window, in call order
  chunk_remapped,    \* the same lists after the line numbers were adjusted
  chunk_result,      \* the list analyze_large_file_chunks returned
  chunk_calls,       \* the analysis_func calls made, in order, by their arguments
  \* LangGraphCodeReviewAgent.review: the workflow state
  wf_pc,             \* "idle" | "initialize" | "process_files" | "format_results" |
                     \* "invoked" | "end"
  wf_files_data,     \* state['files_data']
  wf_index,          \* position of the for loop of _process_all_files
  file_results,      \* file_results, a dict in insertion order
  final_results,     \* state['final_results']
  wf_return,         \* the dict review returned
  \* two calls of analyze_file on one AnalysisPipeline instance
  pipeline_analyzers, \* self.analyzers of the instance
  frames             \* the local variables of each call, by call

pipeVars ==
  <<analyzers, pc, code_lines, changed_lines, next_analyzer, analyzer_results,
    context_issues, calls, raised_by, processed_issues, final_issues>>

postVars == <<post_pc, post_results, post_changed, post_out>>

reviewVars ==
  <<task_pc, task_state, task_return, review_analyzers, files_data, file_index,
    analyzer_index, review_issues, file_reviews, raised_in_file, stages_started,
    cancel_requested>>

graphVars ==
  <<graph_pc, graph_file, graph_lint, graph_heuristic, graph_bug, graph_perf,
    all_issues, graph_final, invoked, raised>>

diffVars == <<diff_pc, diff_patch, diff_changed, diff_code>>

chunkVars ==
  <<chunk_pc, chunk_n, chunk_changed, chunk_outs, chunk_remapped, chunk_result,
    chunk_calls>>

workflowVars ==
  <<wf_pc, wf_files_data, wf_index, file_results, final_results, wf_return>>

runVars == <<pipeline_analyzers, frames>>

vars ==
  <<pipeVars, postVars, reviewVars, graphVars, diffVars, chunkVars, workflowVars,
    runVars>>

\* ------------------------------------------------------------------------
\* AnalysisPipeline.analyze_file
\* ------------------------------------------------------------------------

\* at most this many issues in the list one analyzer.analyze call returns
MaxIssues == 1

AnalyzerPool == {IssueOk, IssueNoType, IssueOffLine, IssueNoLine, IssueOutsideModel}

\* the (code_lines, changed_lines) arguments tried with each configuration
FileInputs(config) ==
  IF config = ChainAnalyzers
  THEN {<<10, <<6>>>>, <<10, <<>>>>, <<600, <<300>>>>,
        <<LARGE_FILE_THRESHOLD, <<6>>>>, <<LARGE_FILE_THRESHOLD + 1, <<6>>>>}
  ELSE {<<10, <<6, 8>>>>, <<600, <<298, 300>>>>, <<600, <<>>>>}

PipeIdle ==
  /\ analyzers = <<>>
  /\ pc = "idle"
  /\ code_lines = 0
  /\ changed_lines = <<>>
  /\ next_analyzer = 0
  /\ analyzer_results = <<>>
  /\ context_issues = <<>>
  /\ calls = <<>>
  /\ raised_by = ""
  /\ processed_issues = <<>>
  /\ final_issues = <<>>

PostIdle ==
  /\ post_pc = "idle"
  /\ post_results = <<>>
  /\ post_changed = <<>>
  /\ post_out = <<>>

NoReturn == [status |-> "none"]

ReviewIdle ==
  /\ task_pc = "idle"
  /\ task_state = "PENDING"
  /\ task_return = NoReturn
  /\ review_analyzers = <<>>
  /\ files_data = <<>>
  /\ file_index = 0
  /\ analyzer_index = 0
  /\ review_issues = <<>>
  /\ file_reviews = <<>>
  /\ raised_in_file = 0
  /\ stages_started = 0
  /\ cancel_requested = FALSE

NoFile == [file_name |-> <<>>, patch |-> <<>>]

GraphIdle ==
  /\ graph_pc = "idle"
  /\ graph_file = NoFile
  /\ graph_lint = <<>>
  /\ graph_heuristic = <<>>
  /\ graph_bug = <<>>
  /\ graph_perf = <<>>
  /\ all_issues = <<>>
  /\ graph_final = <<>>
  /\ invoked = {}
  /\ raised = {}

DiffIdle ==
  /\ diff_pc = "idle"
  /\ diff_patch = EmptyPatch
  /\ diff_changed = <<>>
  /\ diff_code = <<>>

ChunkIdle ==
  /\ chunk_pc = "idle"
  /\ chunk_n = 0
  /\ chunk_changed = <<>>
  /\ chunk_outs = <<>>
  /\ chunk_remapped = <<>>
  /\ chunk_result = <<>>
  /\ chunk_calls = <<>>

NoResults == [status |-> "none"]

WorkflowIdle ==
  /\ wf_pc = "idle"
  /\ wf_files_data = <<>>
  /\ wf_index = 0
  /\ file_results = <<>>
  /\ final_results = NoResults
  /\ wf_return = NoResults

RunsIdle ==
  /\ pipeline_analyzers = <<>>
  /\ frames = <<>>

\* an AnalysisPipeline constructed with one of the configurations
Init ==
  /\ analyzers \in {DemoAnalyzers, ChainAnalyzers}
  /\ pc = "ready"
  /\ code_lines = 0
  /\ changed_lines = <<>>
  /\ next_analyzer = 0
  /\ analyzer_results = <<>>
  /\ context_issues = <<>>
  /\ calls = <<>>
  /\ raised_by = ""
  /\ processed_issues = <<>>
  /\ final_issues = <<>>
  /\ PostIdle
  /\ ReviewIdle
  /\ GraphIdle
  /\ DiffIdle
  /\ ChunkIdle
  /\ WorkflowIdle
  /\ RunsIdle

\* analyze_file is entered: step 1 and the two empty dicts of step 2
AnalyzeFile ==
  /\ pc = "ready"
  /\ \E input \in FileInputs(analyzers) :
       /\ code_lines' = input[1]
       /\ changed_lines' = input[2]
  /\ analyzer_results' = <<>>
  /\ context_issues' = <<>>
  /\ next_analyzer' = 1
  /\ pc' = "loop"
  /\ UNCHANGED <<analyzers, calls, raised_by, processed_issues, final_issues>>
  /\ UNCHANGED <<postVars, reviewVars, graphVars, diffVars, chunkVars, workflowVars, runVars>>

InLoop == pc = "loop" /\ next_analyzer <= Len(analyzers)

\* a faulty variant of the stores, which leaves context_issues alone
StoreResultsWithoutContext(issues) ==
  /\ analyzer_results' = DictSet(analyzer_results, analyzers[next_analyzer].type, issues)
  /\ context_issues' = context_issues
  /\ next_analyzer' = next_analyzer + 1

\* a faulty variant of the stores, which stays on the same analyzer
StoreResultsAndRetry(issues) ==
  /\ analyzer_results' = DictSet(analyzer_results, analyzers[next_analyzer].type, issues)
  /\ context_issues' = DictSet(context_issues, analyzers[next_analyzer].type, issues)
  /\ next_analyzer' = next_analyzer

\* lines 239-242: both dicts get the issues, the loop moves on
StoreResults(issues) ==
  /\ analyzer_results' = DictSet(analyzer_results, analyzers[next_analyzer].type, issues)
  /\ context_issues' = DictSet(context_issues, analyzers[next_analyzer].type, issues)
  /\ next_analyzer' = next_analyzer + 1

\* one loop iteration, file of at most 500 lines: handle_large_file_analysis calls
\* the analyzer once on the whole code
RunAnalyzerDirect ==
  /\ InLoop
  /\ ~is_large_file(code_lines)
  /\ Dispatched(analyzers[next_analyzer])
  /\ \E issues \in SeqsUpTo(AnalyzerPool, MaxIssues) : StoreResults(issues)
  /\ calls' = Append(calls, AnalyzeCall(analyzers[next_analyzer], <<1, code_lines>>,
                                        changed_lines, context_issues))
  /\ UNCHANGED <<analyzers, pc, code_lines, changed_lines, raised_by,
                 processed_issues, final_issues>>
  /\ UNCHANGED <<postVars, reviewVars, graphVars, diffVars, chunkVars, workflowVars, runVars>>

\* one loop iteration for an analyzer _call_pure_analyzer does not call: every
\* call of the analysis function returns [] and so does the iteration
RunAnalyzerNotDispatched ==
  /\ InLoop
  /\ ~Dispatched(analyzers[next_analyzer])
  /\ StoreResults(<<>>)
  /\ UNCHANGED <<analyzers, pc, code_lines, changed_lines, calls, raised_by,
                 processed_issues, final_issues>>
  /\ UNCHANGED <<postVars, reviewVars, graphVars, diffVars, chunkVars, workflowVars, runVars>>

\* one loop iteration, file of more than 500 lines: analyze_large_file_chunks
\* calls the analyzer once per changed line; a returned issue without 'line'
\* makes the remap raise KeyError, which leaves analyze_file
RunAnalyzerChunked ==
  /\ InLoop
  /\ is_large_file(code_lines)
  /\ Dispatched(analyzers[next_analyzer])
  /\ \E outs \in [1..Len(changed_lines) -> SeqsUpTo(AnalyzerPool, MaxIssues)] :
       IF \E i \in 1..Len(outs) : RemapRaises(outs[i])
       THEN LET failed == CHOOSE i \in 1..Len(outs) :
                            /\ RemapRaises(outs[i])
                            /\ \A j \in 1..(i - 1) : ~RemapRaises(outs[j])
            IN  /\ calls' = calls \o ChunkCalls(analyzers[next_analyzer], code_lines,
                                                changed_lines, context_issues, failed)
                /\ pc' = "raised"
                /\ UNCHANGED <<analyzer_results, context_issues, next_analyzer>>
       ELSE /\ calls' = calls \o ChunkCalls(analyzers[next_analyzer], code_lines,
                                            changed_lines, context_issues,
                                            Len(changed_lines))
            /\ StoreResults(analyze_large_file_chunks(changed_lines, outs))
            /\ pc' = pc
  /\ UNCHANGED <<analyzers, code_lines, changed_lines, raised_by,
                 processed_issues, final_issues>>
  /\ UNCHANGED <<postVars, reviewVars, graphVars, diffVars, chunkVars, workflowVars, runVars>>

\* an analyzer.analyze call raises: nothing between the call and the caller of
\* analyze_file catches it
AnalyzerRaises ==
  /\ InLoop
  /\ Dispatched(analyzers[next_analyzer])
  /\ IF is_large_file(code_lines)
     THEN \E failed \in 1..Len(changed_lines) :
            calls' = calls \o ChunkCalls(analyzers[next_analyzer], code_lines,
                                         changed_lines, context_issues, failed)
     ELSE calls' = Append(calls, AnalyzeCall(analyzers[next_analyzer], <<1, code_lines>>,
                                             changed_lines, context_issues))
  /\ raised_by' = analyzers[next_analyzer].type
  /\ pc' = "raised"
  /\ UNCHANGED <<analyzers, code_lines, changed_lines, next_analyzer, analyzer_results,
                 context_issues, processed_issues, final_issues>>
  /\ UNCHANGED <<postVars, reviewVars, graphVars, diffVars, chunkVars, workflowVars, runVars>>

\* steps 3 and 4 and the return
PostProcess ==
  /\ pc = "loop"
  /\ next_analyzer > Len(analyzers)
  /\ LET processed == process_analyzer_results(analyzer_results, changed_lines)
     IN  /\ processed_issues' = processed
         /\ final_issues' =
              validate_and_enrich_results(processed,
                                          [language |-> "python", total_lines |-> code_lines])
  /\ pc' = "done"
  /\ UNCHANGED <<analyzers, code_lines, changed_lines, next_analyzer, analyzer_results,
                 context_issues, calls, raised_by>>
  /\ UNCHANGED <<postVars, reviewVars, graphVars, diffVars, chunkVars, workflowVars, runVars>>

Next ==
  \/ AnalyzeFile
  \/ RunAnalyzerDirect
  \/ RunAnalyzerNotDispatched
  \/ RunAnalyzerChunked
  \/ AnalyzerRaises
  \/ PostProcess

Spec == Init /\ [][Next]_vars

\* a call of analyze_file that has been entered keeps running: from inside the
\* loop the interpreter goes on to the next iteration, or leaves the loop by
\* steps 3 and 4 or by an exception.  Every step of Next taken inside the loop
\* is such a step, and one is possible in every state inside the loop.
Running ==
  /\ pc = "loop"
  /\ \/ pc' = "loop" /\ next_analyzer' = next_analyzer + 1
     \/ pc' \in {"done", "raised"} /\ next_analyzer' = next_analyzer

SpecRunning == Init /\ [][Next]_vars /\ WF_<<pc, next_analyzer>>(Running)

\* ------------------------------------------------------------------------
\* process_analyzer_results applied to bounded inputs
\* ------------------------------------------------------------------------

\* at most this many issues in one analyzer_results argument
MaxPostIssues == 3

PostPool ==
  {IssueOk, IssueOkCaps, IssueOffLine, IssueNoSuggestion, IssueNoLine,
   IssueNoDescription, IssueGenericBug, IssueGenericPerf, IssueLongA, IssueLongB,
   IssueOkOtherFix}

PostTypeOrders == {<<"bug", "performance">>, <<"lint", "bug">>}

PostChangedLines == {<<6>>, <<8>>}

InitPost ==
  /\ post_pc = "ready"
  /\ \E order \in PostTypeOrders, all \in SeqsUpTo(PostPool, MaxPostIssues) :
       \E cut \in 0..Len(all) :
         post_results =
           << [type |-> order[1], issues |-> SubSeq(all, 1, cut)],
              [type |-> order[2], issues |-> SubSeq(all, cut + 1, Len(all))] >>
  /\ post_changed \in PostChangedLines
  /\ post_out = <<>>
  /\ PipeIdle
  /\ ReviewIdle
  /\ GraphIdle
  /\ DiffIdle
  /\ ChunkIdle
  /\ WorkflowIdle
  /\ RunsIdle

ProcessResults ==
  /\ post_pc = "ready"
  /\ post_out' = process_analyzer_results(post_results, post_changed)
  /\ post_pc' = "done"
  /\ UNCHANGED <<post_results, post_changed>>
  /\ UNCHANGED <<pipeVars, reviewVars, graphVars, diffVars, chunkVars, workflowVars, runVars>>

NextPost == ProcessResults

SpecPost == InitPost /\ [][NextPost]_vars

\* ------------------------------------------------------------------------
\* Claims about process_analyzer_results
\* ------------------------------------------------------------------------

\* the signature the specification names: (line, description[:50].lower())
ClaimSignature(issue) ==
  << Get(issue, "line", 0), Lower(Take(Get(issue, "description", <<>>), 50)) >>

\* the issues of an analyzer_results argument, each with its analyzer type
InputEntries(results) ==
  UNION { {[type |-> results[a].type, issue |-> results[a].issues[i]] :
             i \in 1..Len(results[a].issues)} : a \in 1..Len(results) }

\* an input issue none of the three per-analyzer rules of the post-processor drops
PassesRules(entry, lines) ==
  /\ Has(entry.issue, "line")
  /\ Has(entry.issue, "description")
  /\ Has(entry.issue, "suggestion")
  /\ entry.issue["line"] \in ToSet(lines)
  /\ ~is_generic_issue(entry.issue["description"], GENERIC_PHRASE_MAP(entry.type))

\* C9: every issue process_analyzer_results returns is one of the issues it was
\* given, unaltered, and no two returned issues share the signature
\* (line, first 50 characters of the description, lower-cased).
C9_OutputSubsetUniqueSignatures ==
  post_pc = "done" =>
    /\ \A i \in 1..Len(post_out) :
         \E e \in InputEntries(post_results) : e.issue = post_out[i]
    /\ \A i, j \in 1..Len(post_out) :
         i # j => ClaimSignature(post_out[i]) # ClaimSignature(post_out[j])

\* two analyzers reported the same finding in different letter case and the
\* post-processor returned one of them
C9_Witness ==
  /\ post_pc = "done"
  /\ \E a, b \in InputEntries(post_results) :
       /\ a.type # b.type
       /\ a.issue # b.issue
       /\ ClaimSignature(a.issue) = ClaimSignature(b.issue)
       /\ PassesRules(a, post_changed)
       /\ PassesRules(b, post_changed)
  /\ Len(post_out) = 1

\* C10: process_analyzer_results returns no issue whose line is outside
\* changed_lines and no issue lacking line, description or suggestion; dropping
\* them does not disturb the call or the rest: every input issue that passes the
\* per-analyzer rules is still represented (by signature) in the output.
C10_InvalidDroppedSilently ==
  post_pc = "done" =>
    /\ \A i \in 1..Len(post_out) :
         /\ \A key \in {"line", "description", "suggestion"} : Has(post_out[i], key)
         /\ post_out[i]["line"] \in ToSet(post_changed)
    /\ \A e \in InputEntries(post_results) :
         PassesRules(e, post_changed) =>
           \E i \in 1..Len(post_out) :
             ClaimSignature(post_out[i]) = ClaimSignature(e.issue)

\* an input with an off-line issue and an issue lacking a field next to a valid
\* one: the call returned exactly the valid one
C10_Witness ==
  /\ post_pc = "done"
  /\ \E a, b, c \in InputEntries(post_results) :
       /\ Has(a.issue, "line") /\ a.issue["line"] \notin ToSet(post_changed)
       /\ \E key \in {"line", "description", "suggestion"} : ~Has(b.issue, key)
       /\ PassesRules(c, post_changed)
       /\ post_out = <<c.issue>>

\* the issues of an analyzer_results argument in the order the post-processor
\* meets them, each with its analyzer type
RECURSIVE FlatEntries(_)
FlatEntries(results) ==
  IF results = <<>> THEN <<>>
  ELSE [i \in 1..Len(results[1].issues) |->
          [type |-> results[1].type, issue |-> results[1].issues[i]]]
       \o FlatEntries(Tail(results))

\* the positions of a list of entries that hold the first entry of a signature
FirstPositions(entries) ==
  { i \in 1..Len(entries) :
      \A j \in 1..(i - 1) :
        ClaimSignature(entries[j].issue) # ClaimSignature(entries[i].issue) }

\* the issues at a set of positions, in the order of the list
IssuesAt(entries, positions) ==
  [k \in 1..Cardinality(positions) |->
     entries[CHOOSE i \in positions :
               Cardinality({j \in positions : j < i}) = k - 1].issue]

\* two entries from different analyzers that report the same line and the same
\* description with different suggestion text
SameFinding(a, b) ==
  /\ a.type = post_results[1].type
  /\ b.type = post_results[2].type
  /\ \A key \in {"line", "description", "suggestion"} :
       Has(a.issue, key) /\ Has(b.issue, key)
  /\ a.issue["line"] = b.issue["line"]
  /\ a.issue["description"] = b.issue["description"]
  /\ a.issue["suggestion"] # b.issue["suggestion"]

\* exactly one returned issue has the signature of a's issue, and the first
\* analyzer reported it
RetainsFirstAnalyzers(a) ==
  /\ Cardinality({i \in 1..Len(post_out) :
                    ClaimSignature(post_out[i]) = ClaimSignature(a.issue)}) = 1
  /\ \A i \in 1..Len(post_out) :
       ClaimSignature(post_out[i]) = ClaimSignature(a.issue) =>
         post_out[i] \in ToSet(post_results[1].issues)

\* C25 as stated: whenever two analyzers report an issue with the same line and
\* description but different suggestion text, process_analyzer_results retains
\* exactly one of them, the one from the analyzer that comes first.
C25_AlwaysRetainsOne ==
  post_pc = "done" =>
    \A a, b \in ToSet(FlatEntries(post_results)) :
      SameFinding(a, b) => RetainsFirstAnalyzers(a)

\* C25, amended: the list returned holds, for each distinct signature among
\* the issues that pass the per-analyzer rules, exactly the first such issue,
\* in input order; so when two analyzers report an issue with the same line
\* and description but different suggestion text, and both reports pass the
\* per-analyzer rules, exactly one is retained, the first analyzer's.
C25_FirstPerSignatureKept ==
  post_pc = "done" =>
    LET passing == SelectSeq(FlatEntries(post_results),
                             LAMBDA e : PassesRules(e, post_changed))
    IN  /\ post_out = IssuesAt(passing, FirstPositions(passing))
        /\ \A a, b \in ToSet(passing) :
             SameFinding(a, b) => RetainsFirstAnalyzers(a)

\* the scenario: the first analyzer reports the finding with one suggestion,
\* the second with another, and the first one's report is returned
C25_Witness ==
  /\ post_pc = "done"
  /\ post_results[1].issues = <<IssueOk>>
  /\ post_results[2].issues = <<IssueOkOtherFix>>
  /\ post_changed = <<6>>
  /\ post_out = <<IssueOk>>

\* the generic-phrase list configured for a category, by the specification:
\* the bug, performance and best_practice categories have one, no other has
ConfiguredPhrases(category) ==
  IF category = "bug" THEN ToSet(BUG_GENERIC_PHRASES)
  ELSE IF category = "performance" THEN ToSet(PERFORMANCE_GENERIC_PHRASES)
  ELSE IF category = "best_practice" THEN ToSet(BEST_PRACTICES_GENERIC_PHRASES)
  ELSE {}

\* the lower-cased description of the entry's issue contains a phrase
\* configured for the category of the analyzer that produced it
GenericWording(entry) ==
  \E phrase \in ConfiguredPhrases(entry.type) :
    Contains(Lower(Get(entry.issue, "description", <<>>)), phrase)

\* the entry's issue is on a changed line and has the required fields
OtherwiseKept(entry, lines) ==
  /\ \A key \in {"line", "description", "suggestion"} : Has(entry.issue, key)
  /\ entry.issue["line"] \in ToSet(lines)

\* C26: process_analyzer_results drops an issue for generic wording exactly
\* when its lower-cased description contains a phrase of the list configured
\* for the category of the analyzer that produced it.  Every returned issue
\* was reported by an analyzer for which its wording is not generic; every
\* otherwise valid issue whose wording is not generic for its analyzer is
\* represented in the result, so a phrase listed only for another category, or
\* an analyzer without a list, causes no drop.
C26_GenericDroppedPerCategory ==
  post_pc = "done" =>
    /\ \A i \in 1..Len(post_out) :
         \E e \in ToSet(FlatEntries(post_results)) :
           /\ e.issue = post_out[i]
           /\ ~GenericWording(e)
    /\ \A e \in ToSet(FlatEntries(post_results)) :
         (OtherwiseKept(e, post_changed) /\ ~GenericWording(e)) =>
           \E i \in 1..Len(post_out) :
             ClaimSignature(post_out[i]) = ClaimSignature(e.issue)

\* the bug analyzer reported 'This Might Have An Issue' and 'loop could be
\* optimized': the first was dropped, the second, generic only for the
\* performance category, was returned
C26_Witness ==
  /\ post_pc = "done"
  /\ post_results[1] = [type |-> "bug", issues |-> <<IssueGenericBug, IssueGenericPerf>>]
  /\ post_changed = <<6>>
  /\ post_out = <<IssueGenericPerf>>

\* ------------------------------------------------------------------------
\* tasks.py: analyze_pr_task, and BaseAgent.review with _format_output
\* ------------------------------------------------------------------------

\* sum(len(f['issues']) for f in file_reviews)
RECURSIVE total_issues(_)
total_issues(reviews) ==
  IF reviews = <<>> THEN 0
  ELSE Len(reviews[1].issues) + total_issues(Tail(reviews))

\* sum(1 for issue in issue_list if issue['type'] == 'bug')
RECURSIVE BugCount(_)
BugCount(issue_list) ==
  IF issue_list = <<>> THEN 0
  ELSE (IF issue_list[1]["type"] = "bug" THEN 1 ELSE 0) + BugCount(Tail(issue_list))

\* a faulty variant of the count, which counts every issue
CriticalIssuesCountingAll(reviews) == total_issues(reviews)

RECURSIVE critical_issues(_)
critical_issues(reviews) ==
  IF reviews = <<>> THEN 0
  ELSE BugCount(reviews[1].issues) + critical_issues(Tail(reviews))

_format_output(reviews) ==
  [task_id |-> "uuid4",
   status |-> "completed",
   results |-> [files |-> reviews,
                summary |-> [total_files |-> Len(reviews),
                             total_issues |-> total_issues(reviews),
                             critical_issues |-> critical_issues(reviews)]]]

\* the dict both except branches of analyze_pr_task return
FailedReturn(message) ==
  [task_id |-> "request.id", status |-> "failed", message |-> message]

\* the dict analyze_pr_task returns after a review
CompletedReturn(analysis_result) ==
  [task_id |-> "request.id", status |-> "completed", results |-> analysis_result,
   message |-> "PR analysis completed successfully"]

\* routes/pr.py, get_task_status: the report for the state read from the
\* result backend (the branches on task_state; the handler answers status
\* 'error' when reading the backend raises)
get_task_status(state) ==
  CASE state = "PENDING" ->
         [status |-> "pending", message |-> "Task is waiting to be processed"]
    [] state = "PROCESSING" ->
         [status |-> "processing", message |-> "Task is being processed"]
    [] state = "SUCCESS" ->
         [status |-> "completed", message |-> "Analysis completed successfully"]
    [] state = "FAILURE" ->
         [status |-> "failed", message |-> "Task failed"]
    [] OTHER ->
         [status |-> "other", message |-> "Task state"]

\* routes/pr.py, get_task_results: the response for the state and the result
\* read from the result backend; http is the status code of the response
get_task_results(state, info) ==
  CASE state \in {"PENDING", "PROCESSING"} ->
         [http |-> 202, status |-> "pending"]
    [] state = "SUCCESS" ->
         [http |-> 200, status |-> "completed",
          results |-> IF "results" \in DOMAIN info THEN info.results ELSE info]
    [] state = "FAILURE" ->
         [http |-> 500, status |-> "failed"]
    [] OTHER ->
         [http |-> 400, status |-> "unexpected"]

\* what ruff check may print
RuffFindingUnused ==
  [row |-> 1, code |-> CodeF401,
   message |-> <<"u","n","u","s","e","d"," ","i","m","p","o","r","t">>]

RuffFindingLong ==
  [row |-> 2, code |-> CodeE501,
   message |-> <<"l","i","n","e"," ","t","o","o"," ","l","o","n","g">>]

RuffCheckOutputs ==
  {<<>>, <<RuffFindingUnused>>, <<RuffFindingLong>>, <<RuffFindingUnused, RuffFindingLong>>}

\* what ruff format may answer
RuffFormatOutcomes ==
  {[returncode |-> 0, removed |-> <<>>],
   [returncode |-> 1, removed |-> <<>>],
   [returncode |-> 1, removed |-> <<1, 2>>]}

\* what an analyzer added with add_analyzer may return
IssueAtTwo ==
  [type |-> "bug", line |-> 2, description |-> DescUnsafe, suggestion |-> "use .get()"]

CustomPool == {IssueAtTwo, IssueOk}

\* the file_info lists a fetched payload may hold
Payloads ==
  { << [file_name |-> NameAppPy, patch |-> PatchOneAddition] >>,
    << [file_name |-> NameAppPy, patch |-> PatchDeletionOnly],
       [file_name |-> NameReadme, patch |-> PatchTwoHunks] >>,
    << [file_name |-> NameReadme, patch |-> EmptyPatch],
       [file_name |-> NameAppPy, patch |-> PatchTwoHunks] >> }

\* a queued task.  analyze_pr_task builds the agent with the default analyzer
\* list [CodeQualityAnalyzer()]; the second list is an agent given one more
\* analyzer (the constructor's analyzers argument, or add_analyzer), the only
\* kind of analyzer whose analyze call can raise: the linters behind
\* CodeQualityAnalyzer catch their own exceptions
InitReview ==
  /\ task_pc = "queued"
  /\ task_state = "PENDING"
  /\ task_return = NoReturn
  /\ review_analyzers \in {<<"CodeQualityAnalyzer">>,
                           <<"CodeQualityAnalyzer", "CustomAnalyzer">>}
  /\ files_data = <<>>
  /\ file_index = 0
  /\ analyzer_index = 0
  /\ review_issues = <<>>
  /\ file_reviews = <<>>
  /\ raised_in_file = 0
  /\ stages_started = 0
  /\ cancel_requested = FALSE
  /\ PipeIdle
  /\ PostIdle
  /\ GraphIdle
  /\ DiffIdle
  /\ ChunkIdle
  /\ WorkflowIdle
  /\ RunsIdle

\* lines 28-67: the PR data is fetched and the agent is built
FetchPR ==
  /\ task_pc = "queued"
  /\ files_data' \in Payloads
  /\ task_state' = "PROCESSING"
  /\ file_index' = 1
  /\ analyzer_index' = 1
  /\ task_pc' = "reviewing"
  /\ UNCHANGED <<task_return, review_analyzers, review_issues, file_reviews, raised_in_file,
                 stages_started, cancel_requested>>
  /\ UNCHANGED <<pipeVars, postVars, graphVars, diffVars, chunkVars, workflowVars, runVars>>

\* lines 39-57: fetching raises
FetchFails ==
  /\ task_pc = "queued"
  /\ task_state' = "FAILURE"
  /\ task_return' = FailedReturn("Failed to fetch PR data")
  /\ task_pc' = "returned"
  /\ UNCHANGED <<review_analyzers, files_data, file_index, analyzer_index, review_issues,
                 file_reviews, raised_in_file, stages_started, cancel_requested>>
  /\ UNCHANGED <<pipeVars, postVars, graphVars, diffVars, chunkVars, workflowVars, runVars>>

Reviewing == task_pc = "reviewing" /\ file_index <= Len(files_data)

\* the lists one analyzer.analyze call of review may return
AnalyzerOutputs(analyzer, file_info) ==
  IF analyzer = "CodeQualityAnalyzer"
  THEN {CodeQualityAnalyze(file_info.file_name, ruff_issues, format,
                           _extract_changed_lines(file_info.patch)) :
          ruff_issues \in RuffCheckOutputs, format \in RuffFormatOutcomes}
  ELSE SeqsUpTo(CustomPool, MaxIssues)

\* one analyzer.analyze call of review returns (lines 68-74); after the last
\* analyzer of a file its FileReview is appended (lines 77-80)
ReviewAnalyzerCall ==
  /\ Reviewing
  /\ \E file_issues \in AnalyzerOutputs(review_analyzers[analyzer_index],
                                        files_data[file_index]) :
       IF analyzer_index = Len(review_analyzers)
       THEN /\ file_reviews' =
                 Append(file_reviews,
                        [name |-> files_data[file_index].file_name,
                         issues |-> review_issues \o file_issues])
            /\ review_issues' = <<>>
            /\ file_index' = file_index + 1
            /\ analyzer_index' = 1
       ELSE /\ review_issues' = review_issues \o file_issues
            /\ analyzer_index' = analyzer_index + 1
            /\ UNCHANGED <<file_reviews, file_index>>
  /\ stages_started' = stages_started + 1
  /\ UNCHANGED <<task_pc, task_state, task_return, review_analyzers, files_data,
                 raised_in_file, cancel_requested>>
  /\ UNCHANGED <<pipeVars, postVars, graphVars, diffVars, chunkVars, workflowVars, runVars>>

\* an added analyzer raises: review has no handler, the except branch of
\* analyze_pr_task (lines 84-103) reports the failure
ReviewAnalyzerRaises ==
  /\ Reviewing
  /\ review_analyzers[analyzer_index] = "CustomAnalyzer"
  /\ stages_started' = stages_started + 1
  /\ raised_in_file' = file_index
  /\ task_state' = "FAILURE"
  /\ task_return' = FailedReturn("Failed during code analysis")
  /\ task_pc' = "returned"
  /\ UNCHANGED <<review_analyzers, files_data, file_index, analyzer_index, review_issues,
                 file_reviews, cancel_requested>>
  /\ UNCHANGED <<pipeVars, postVars, graphVars, diffVars, chunkVars, workflowVars, runVars>>

\* review returns _format_output(...) and the task returns its result
ReviewReturns ==
  /\ task_pc = "reviewing"
  /\ file_index > Len(files_data)
  /\ task_return' = CompletedReturn(_format_output(file_reviews))
  /\ task_pc' = "returned"
  /\ UNCHANGED <<task_state, review_analyzers, files_data, file_index, analyzer_index,
                 review_issues, file_reviews, raised_in_file, stages_started, cancel_requested>>
  /\ UNCHANGED <<pipeVars, postVars, graphVars, diffVars, chunkVars, workflowVars, runVars>>

\* analyze_pr_task has returned a dict, on every path by a return statement:
\* the Celery worker that ran it as a task stores the returned value as the
\* task's result, with state SUCCESS, over whatever update_state had written
WorkerStoresResult ==
  /\ task_pc = "returned"
  /\ task_state' = "SUCCESS"
  /\ task_pc' = "stored"
  /\ UNCHANGED <<task_return, review_analyzers, files_data, file_index, analyzer_index,
                 review_issues, file_reviews, raised_in_file, stages_started,
                 cancel_requested>>
  /\ UNCHANGED <<pipeVars, postVars, graphVars, diffVars, chunkVars, workflowVars, runVars>>

\* the environment gives the cancellation signal while a review is running
SignalCancel ==
  /\ task_pc = "reviewing"
  /\ ~cancel_requested
  /\ cancel_requested' = TRUE
  /\ UNCHANGED <<task_pc, task_state, task_return, review_analyzers, files_data,
                 file_index, analyzer_index, review_issues, file_reviews, raised_in_file,
                 stages_started>>
  /\ UNCHANGED <<pipeVars, postVars, graphVars, diffVars, chunkVars, workflowVars, runVars>>

NextReview ==
  \/ FetchPR
  \/ FetchFails
  \/ ReviewAnalyzerCall
  \/ ReviewAnalyzerRaises
  \/ ReviewReturns
  \/ WorkerStoresResult
  \/ SignalCancel

SpecReview == InitReview /\ [][NextReview]_vars

\* ------------------------------------------------------------------------
\* Claims about BaseAgent.review and analyze_pr_task
\* ------------------------------------------------------------------------

\* C2: in the Report of BaseAgent.review every issue of every FileReview has
\* its line in the ChangedLineSet of that file's patch, so a file with an empty
\* ChangedLineSet has no issues.  Stated for the default analyzer.
C2_ReportIssuesOnChangedLines ==
  (/\ task_pc = "returned"
   /\ task_return.status = "completed"
   /\ review_analyzers = <<"CodeQualityAnalyzer">>) =>
    \A f \in 1..Len(task_return.results.results.files) :
      \A issue \in ToSet(task_return.results.results.files[f].issues) :
        issue["line"] \in ToSet(_extract_changed_lines(files_data[f].patch))

\* C5: an analyzer raising during one file does not abort the review: the task
\* ends 'completed' and its Report holds a FileReview for every other file of
\* the payload.
C5_RaisingAnalyzerDoesNotAbort ==
  (task_pc = "returned" /\ raised_in_file # 0) =>
    /\ task_return.status = "completed"
    /\ \A f \in (1..Len(files_data)) \ {raised_in_file} :
         \E r \in 1..Len(task_return.results.results.files) :
           task_return.results.results.files[r].name = files_data[f].file_name

\* the positions <<file, issue>> of the issues of a list of FileReviews
IssuePositions(files) ==
  UNION { {<<f, i>> : i \in 1..Len(files[f].issues)} : f \in 1..Len(files) }

BugPositions(files) ==
  {pos \in IssuePositions(files) : files[pos[1]].issues[pos[2]]["type"] = "bug"}

\* C16: in the summary, total_files is the number of FileReviews, total_issues
\* the sum of the lengths of their issue lists, critical_issues the number of
\* issues of type bug over all files, and critical_issues <= total_issues.
C16_SummaryCounts ==
  (task_pc = "returned" /\ task_return.status = "completed") =>
    LET files == task_return.results.results.files
        summary == task_return.results.results.summary
    IN  /\ summary.total_files = Len(files)
        /\ summary.total_issues = Cardinality(IssuePositions(files))
        /\ summary.critical_issues = Cardinality(BugPositions(files))
        /\ summary.critical_issues <= summary.total_issues

\* a Report of two files with issues of type bug and issues of another type
C16_Witness ==
  /\ task_pc = "returned"
  /\ task_return.status = "completed"
  /\ task_return.results.results.summary.total_files = 2
  /\ task_return.results.results.summary.critical_issues >= 1
  /\ task_return.results.results.summary.critical_issues
       < task_return.results.results.summary.total_issues

\* C18: the payload of a successful analyze_pr_task is {task_id, status,
\* results: {files, summary}}: results holds the files list and the summary
\* directly, and holds no task_id or status assigned by the agent.
C18_PayloadShape ==
  (task_pc = "returned" /\ task_return.status = "completed") =>
    /\ {"task_id", "status", "results"} \subseteq DOMAIN task_return
    /\ {"files", "summary"} \subseteq DOMAIN task_return.results
    /\ "task_id" \notin DOMAIN task_return.results
    /\ "status" \notin DOMAIN task_return.results

\* C8: once the cancellation signal is given, no further analyzer stage is
\* started.
C8_NoStageAfterCancel ==
  [][cancel_requested => stages_started' = stages_started]_vars

\* ------------------------------------------------------------------------
\* langgraph_agent.py: LangGraphCodeReviewAgent._analyze_single_file
\* ------------------------------------------------------------------------

EndsWith(s, ext) ==
  Len(s) >= Len(ext) /\ SubSeq(s, Len(s) - Len(ext) + 1, Len(s)) = ext

\* LangGraphCodeReviewAgent._detect_language, for the extensions of the model
LangGraphDetectLanguage(filename) ==
  IF EndsWith(filename, <<".","p","y">>) THEN "Python" ELSE "Unknown"

\* what the heuristics and the three LLM agents may return
GraphPool == {IssueAtTwo, IssueOkCaps}

GraphFiles ==
  {[file_name |-> NameAppPy, patch |-> PatchOneAddition],
   [file_name |-> NameReadme, patch |-> PatchTwoHunks]}

Stages == {"lint", "heuristic", "bug", "performance", "best_practices"}

InitGraph ==
  /\ graph_pc = "lint"
  /\ graph_file \in GraphFiles
  /\ graph_lint = <<>>
  /\ graph_heuristic = <<>>
  /\ graph_bug = <<>>
  /\ graph_perf = <<>>
  /\ all_issues = <<>>
  /\ graph_final = <<>>
  /\ invoked = {}
  /\ raised = {}
  /\ PipeIdle
  /\ PostIdle
  /\ ReviewIdle
  /\ DiffIdle
  /\ ChunkIdle
  /\ WorkflowIdle
  /\ RunsIdle

language == LangGraphDetectLanguage(graph_file.file_name)

\* lines 137-149: the linter of the language returns; no linter is called for
\* a file of unknown language
LintStage ==
  /\ graph_pc = "lint"
  /\ IF language = "Python"
     THEN /\ \E ruff_issues \in RuffCheckOutputs, format \in RuffFormatOutcomes :
               graph_lint' = lint(ruff_issues, format,
                                  _extract_changed_lines(graph_file.patch))
          /\ invoked' = invoked \cup {"lint"}
     ELSE /\ graph_lint' = <<>>
          /\ UNCHANGED invoked
  /\ all_issues' = all_issues \o graph_lint'
  /\ graph_pc' = "heuristic"
  /\ UNCHANGED <<graph_file, graph_heuristic, graph_bug, graph_perf, graph_final, raised>>
  /\ UNCHANGED <<pipeVars, postVars, reviewVars, diffVars, chunkVars, workflowVars, runVars>>

\* lines 150-151: the linter raises
LintRaises ==
  /\ graph_pc = "lint"
  /\ language = "Python"
  /\ invoked' = invoked \cup {"lint"}
  /\ raised' = raised \cup {"lint"}
  /\ graph_lint' = <<>>
  /\ graph_pc' = "heuristic"
  /\ UNCHANGED <<graph_file, graph_heuristic, graph_bug, graph_perf, all_issues,
                 graph_final>>
  /\ UNCHANGED <<pipeVars, postVars, reviewVars, diffVars, chunkVars, workflowVars, runVars>>

\* lines 154-160: the heuristics return; they exist for Python only
HeuristicStage ==
  /\ graph_pc = "heuristic"
  /\ IF language = "Python"
     THEN /\ graph_heuristic' \in SeqsUpTo(GraphPool, MaxIssues)
          /\ invoked' = invoked \cup {"heuristic"}
     ELSE /\ graph_heuristic' = <<>>
          /\ UNCHANGED invoked
  /\ all_issues' = all_issues \o graph_heuristic'
  /\ graph_pc' = "bug"
  /\ UNCHANGED <<graph_file, graph_lint, graph_bug, graph_perf, graph_final, raised>>
  /\ UNCHANGED <<pipeVars, postVars, reviewVars, diffVars, chunkVars, workflowVars, runVars>>

\* lines 161-162: the heuristics raise, heuristic_issues is still []
HeuristicRaises ==
  /\ graph_pc = "heuristic"
  /\ language = "Python"
  /\ invoked' = invoked \cup {"heuristic"}
  /\ raised' = raised \cup {"heuristic"}
  /\ graph_heuristic' = <<>>
  /\ graph_pc' = "bug"
  /\ UNCHANGED <<graph_file, graph_lint, graph_bug, graph_perf, all_issues, graph_final>>
  /\ UNCHANGED <<pipeVars, postVars, reviewVars, diffVars, chunkVars, workflowVars, runVars>>

\* lines 167-174
BugStage ==
  /\ graph_pc = "bug"
  /\ graph_bug' \in SeqsUpTo(GraphPool, MaxIssues)
  /\ all_issues' = all_issues \o graph_bug'
  /\ invoked' = invoked \cup {"bug"}
  /\ graph_pc' = "performance"
  /\ UNCHANGED <<graph_file, graph_lint, graph_heuristic, graph_perf, graph_final, raised>>
  /\ UNCHANGED <<pipeVars, postVars, reviewVars, diffVars, chunkVars, workflowVars, runVars>>

\* lines 177-185
PerformanceStage ==
  /\ graph_pc = "performance"
  /\ graph_perf' \in SeqsUpTo(GraphPool, MaxIssues)
  /\ all_issues' = all_issues \o graph_perf'
  /\ invoked' = invoked \cup {"performance"}
  /\ graph_pc' = "best_practices"
  /\ UNCHANGED <<graph_file, graph_lint, graph_heuristic, graph_bug, graph_final, raised>>
  /\ UNCHANGED <<pipeVars, postVars, reviewVars, diffVars, chunkVars, workflowVars, runVars>>

\* lines 188-197
BestPracticesStage ==
  /\ graph_pc = "best_practices"
  /\ \E best_practices_issues \in SeqsUpTo(GraphPool, MaxIssues) :
       all_issues' = all_issues \o best_practices_issues
  /\ invoked' = invoked \cup {"best_practices"}
  /\ graph_pc' = "dedup"
  /\ UNCHANGED <<graph_file, graph_lint, graph_heuristic, graph_bug, graph_perf,
                 graph_final, raised>>
  /\ UNCHANGED <<pipeVars, postVars, reviewVars, diffVars, chunkVars, workflowVars, runVars>>

\* lines 164-200: the three LLM agents are called inside one try block, so an
\* agent that raises ends the block: control goes to the handler and from
\* there to the deduplication
LLMStageRaises ==
  /\ graph_pc \in {"bug", "performance", "best_practices"}
  /\ invoked' = invoked \cup {graph_pc}
  /\ raised' = raised \cup {graph_pc}
  /\ graph_pc' = "dedup"
  /\ UNCHANGED <<graph_file, graph_lint, graph_heuristic, graph_bug, graph_perf,
                 all_issues, graph_final>>
  /\ UNCHANGED <<pipeVars, postVars, reviewVars, diffVars, chunkVars, workflowVars, runVars>>

\* lines 202-204
Deduplicate ==
  /\ graph_pc = "dedup"
  /\ graph_final' = deduplicate_issues(all_issues)
  /\ graph_pc' = "done"
  /\ UNCHANGED <<graph_file, graph_lint, graph_heuristic, graph_bug, graph_perf,
                 all_issues, invoked, raised>>
  /\ UNCHANGED <<pipeVars, postVars, reviewVars, diffVars, chunkVars, workflowVars, runVars>>

NextGraph ==
  \/ LintStage
  \/ LintRaises
  \/ HeuristicStage
  \/ HeuristicRaises
  \/ BugStage
  \/ PerformanceStage
  \/ BestPracticesStage
  \/ LLMStageRaises
  \/ Deduplicate

SpecLangGraph == InitGraph /\ [][NextGraph]_vars

\* ------------------------------------------------------------------------
\* Claims about _analyze_single_file
\* ------------------------------------------------------------------------

\* C4: when a single stage of _analyze_single_file raises on a Python file,
\* every other stage is still invoked.
C4_OtherStagesStillInvoked ==
  (/\ graph_pc = "done"
   /\ language = "Python"
   /\ Cardinality(raised) = 1) => invoked = Stages

\* ------------------------------------------------------------------------
\* base_agent.py: the patch mapper as review uses it (lines 60 and 63); the
\* methods of langgraph_agent.py (lines 492-540) are the same code
\* ------------------------------------------------------------------------

\* at most this many lines in an enumerated patch
MaxPatchLines == 4

GivenPatches ==
  (SeqsUpTo(PatchLinePool, MaxPatchLines) \ {<<>>})
    \cup {EmptyPatch, <<LineBare>>, <<LineBare, LineAdded>>,
          PatchOneAddition, PatchDeletionOnly, PatchTwoHunks,
          <<LineHunkAtEight, LineRemoved, LineAdded, LineHunkAtOne, LineAdded>>}

InitDiff ==
  /\ diff_pc = "given"
  /\ diff_patch \in GivenPatches
  /\ diff_changed = <<>>
  /\ diff_code = <<>>
  /\ PipeIdle
  /\ PostIdle
  /\ ReviewIdle
  /\ GraphIdle
  /\ ChunkIdle
  /\ WorkflowIdle
  /\ RunsIdle

\* changed_lines = self._extract_changed_lines(file_info.get('patch', ''))
ExtractChangedLines ==
  /\ diff_pc = "given"
  /\ diff_changed' = _extract_changed_lines(diff_patch)
  /\ diff_pc' = "mapped"
  /\ UNCHANGED <<diff_patch, diff_code>>
  /\ UNCHANGED <<pipeVars, postVars, reviewVars, graphVars, chunkVars, workflowVars, runVars>>

\* raw_code = self._extract_code_from_patch(file_info.get('patch', ''))
ExtractCode ==
  /\ diff_pc = "mapped"
  /\ diff_code' = _extract_code_from_patch(diff_patch)
  /\ diff_pc' = "extracted"
  /\ UNCHANGED <<diff_patch, diff_changed>>
  /\ UNCHANGED <<pipeVars, postVars, reviewVars, graphVars, chunkVars, workflowVars, runVars>>

NextDiff ==
  \/ ExtractChangedLines
  \/ ExtractCode

SpecDiff == InitDiff /\ [][NextDiff]_vars

\* ------------------------------------------------------------------------
\* Claims about the patch mapper
\* ------------------------------------------------------------------------

Mapped == diff_pc \in {"mapped", "extracted"}

\* the lines of the returned CodeView
CodeView == SplitLines(diff_code)

IsHeader(line) == HunkStart(line) >= 0

\* the last hunk header before line i, 0 when there is none
HeaderBefore(lines, i) ==
  IF \E h \in 1..(i - 1) : IsHeader(lines[h])
  THEN CHOOSE h \in 1..(i - 1) :
         IsHeader(lines[h]) /\ \A g \in (h + 1)..(i - 1) : ~IsHeader(lines[g])
  ELSE 0

\* a line that is neither a header, nor a deletion, nor a '\' marker
Numbered(line) ==
  ~IsHeader(line) /\ ~IsDeletion(line) /\ ~StartsWith(line, <<"\\">>)

\* c + k - 1 for the k-th numbered line after the header '@@ -a,b +c,d @@';
\* before the first header the cursor starts at 0, as after a header with c = 1
NewFileNumber(lines, i) ==
  LET h == HeaderBefore(lines, i)
      c == IF h = 0 THEN 1 ELSE HunkStart(lines[h])
      k == Cardinality({j \in (h + 1)..i : Numbered(lines[j])})
  IN  c + k - 1

AdditionsOf(lines) == {i \in 1..Len(lines) : IsAddition(lines[i])}

\* C12: the ChangedLineSet holds only positive integers, no duplicates, and is
\* strictly ascending, for every patch.
C12_ChangedLinesPositiveAscending ==
  Mapped =>
    /\ \A i \in 1..Len(diff_changed) : diff_changed[i] >= 1
    /\ \A i \in 1..Len(diff_changed) : \A j \in (i + 1)..Len(diff_changed) :
         diff_changed[i] < diff_changed[j]

\* C13: for the patch '@@ -1,2 +1,3 @@', ' line1', '+added_line', ' line2' the
\* ChangedLineSet is {2} and the CodeView is the three lines 'line1',
\* 'added_line', 'line2': additions and context lines without their prefix.
C13_CodeViewOfScenarioOne ==
  (diff_pc = "extracted" /\ diff_patch = PatchOneAddition) =>
    /\ diff_changed = <<2>>
    /\ CodeView = << Tail(PatchOneAddition[2]), Tail(PatchOneAddition[3]),
                     Tail(PatchOneAddition[4]) >>

\* C14: for an empty patch and for a patch without any hunk header the
\* ChangedLineSet and the CodeView are empty.
C14_NoHeaderGivesEmpty ==
  (diff_pc = "extracted" /\ \A i \in 1..Len(diff_patch) : ~IsHeader(diff_patch[i])) =>
    /\ diff_changed = <<>>
    /\ diff_code = <<>>

\* C19: every hunk header sets the cursor to c - 1 whatever came before; the
\* k-th line after it that is neither a deletion nor a '\' marker has new-file
\* number c + k - 1, and the ChangedLineSet holds exactly the numbers of the
\* additions; deletions advance nothing.
C19_CursorArithmetic ==
  (Mapped /\ diff_patch # EmptyPatch) =>
    ToSet(diff_changed) =
      {NewFileNumber(diff_patch, i) : i \in AdditionsOf(diff_patch)}

\* a mapped patch with two hunks, the second starting below the first, a
\* deletion before an addition in the first hunk, and an addition in each hunk
C19_Witness ==
  /\ Mapped
  /\ Len(diff_patch) = 5
  /\ diff_patch[1] = LineHunkAtEight
  /\ IsDeletion(diff_patch[2])
  /\ IsAddition(diff_patch[3])
  /\ diff_patch[4] = LineHunkAtOne
  /\ IsAddition(diff_patch[5])
  /\ diff_changed = <<1, 8>>

\* C20: for every L in the ChangedLineSet, line L of the CodeView is the content
\* of the addition that was numbered L.
C20_CodeViewInNewFileCoordinates ==
  diff_pc = "extracted" =>
    \A L \in ToSet(diff_changed) :
      /\ L \in 1..Len(CodeView)
      /\ \E i \in AdditionsOf(diff_patch) :
           NewFileNumber(diff_patch, i) = L /\ CodeView[L] = Tail(diff_patch[i])

\* ------------------------------------------------------------------------
\* utils.py: analyze_large_file_chunks on its own
\* ------------------------------------------------------------------------

\* an issue whose line is past the end of an 11 line window
IssueBeyondChunk ==
  [type |-> "bug", line |-> 20, description |-> DescUnsafe, suggestion |-> "use .get()"]

\* what analysis_func may return for a window
ChunkPool == {IssueOk, IssueOffLine, IssueBeyondChunk, IssueNoLine}

\* the (len(code_lines), changed_lines) arguments tried
ChunkInputs ==
  {<<3, <<1>>>>, <<3, <<1, 3>>>>, <<12, <<6>>>>, <<12, <<2, 12>>>>,
   <<600, <<300>>>>, <<600, <<1, 600>>>>, <<600, <<298, 300>>>>,
   <<600, <<300, 300>>>>}

InitChunks ==
  /\ chunk_pc = "called"
  /\ \E input \in ChunkInputs :
       /\ chunk_n = input[1]
       /\ chunk_changed = input[2]
  /\ chunk_outs \in [1..Len(chunk_changed) -> SeqsUpTo(ChunkPool, MaxIssues)]
  /\ chunk_remapped = <<>>
  /\ chunk_result = <<>>
  /\ chunk_calls = <<>>
  /\ PipeIdle
  /\ PostIdle
  /\ ReviewIdle
  /\ GraphIdle
  /\ DiffIdle
  /\ WorkflowIdle
  /\ RunsIdle

\* lines 113-132: every window is analysed, its issues are remapped, and the
\* deduplicated concatenation is returned
AnalyzeChunks ==
  /\ chunk_pc = "called"
  /\ \A w \in 1..Len(chunk_outs) : ~RemapRaises(chunk_outs[w])
  /\ chunk_remapped' =
       [w \in 1..Len(chunk_outs) |->
          RemapChunk(chunk_outs[w], start_line(chunk_changed[w]))]
  /\ chunk_result' = analyze_large_file_chunks(chunk_changed, chunk_outs)
  /\ chunk_calls' = [w \in 1..Len(chunk_changed) |-> WindowCall(chunk_n, chunk_changed[w])]
  /\ chunk_pc' = "returned"
  /\ UNCHANGED <<chunk_n, chunk_changed, chunk_outs>>
  /\ UNCHANGED <<pipeVars, postVars, reviewVars, graphVars, diffVars, workflowVars, runVars>>

\* line 128: issue['line'] raises KeyError for an issue without the key
ChunkRemapRaises ==
  /\ chunk_pc = "called"
  /\ \E w \in 1..Len(chunk_outs) :
       /\ RemapRaises(chunk_outs[w])
       /\ \A v \in 1..(w - 1) : ~RemapRaises(chunk_outs[v])
       /\ chunk_calls' = [v \in 1..w |-> WindowCall(chunk_n, chunk_changed[v])]
  /\ chunk_pc' = "raised"
  /\ UNCHANGED <<chunk_n, chunk_changed, chunk_outs, chunk_remapped, chunk_result>>
  /\ UNCHANGED <<pipeVars, postVars, reviewVars, graphVars, diffVars, workflowVars, runVars>>

NextChunks ==
  \/ AnalyzeChunks
  \/ ChunkRemapRaises

SpecChunks == InitChunks /\ [][NextChunks]_vars

\* C15: the window of a changed line L contains L, and every issue the analysis
\* call returned for that window has, after remapping, its line inside the
\* window's range [start, end] of file lines.
C15_RemappedIssuesInsideWindow ==
  chunk_pc = "returned" =>
    \A w \in 1..Len(chunk_changed) :
      /\ start_line(chunk_changed[w]) <= chunk_changed[w]
      /\ chunk_changed[w] <= end_line(chunk_n, chunk_changed[w])
      /\ \A i \in 1..Len(chunk_remapped[w]) :
           /\ chunk_remapped[w][i]["line"] >= start_line(chunk_changed[w])
           /\ chunk_remapped[w][i]["line"] <= end_line(chunk_n, chunk_changed[w])

\* the window bounds by the arithmetic of the specification
WindowStart(L) == IF L - CONTEXT_SIZE < 1 THEN 1 ELSE L - CONTEXT_SIZE

WindowEnd(n, L) == IF L + CONTEXT_SIZE > n THEN n ELSE L + CONTEXT_SIZE

\* C22: analyze_large_file_chunks makes exactly one analysis call per element
\* of changed_lines, also when windows overlap or repeat; the call for L gets
\* file lines max(1, L-5)..min(n, L+5) and the one-element local list
\* [L - start + 1]; an issue returned at local line j is reported at line
\* j + start - 1, and the result is the de-duplicated list of those.  For
\* n = 600 and changed_lines = [300] there is one call, on lines 295..305 with
\* local list [6], and an issue returned at local line 6 is reported at 300.
C22_OneCallPerChangedLine ==
  chunk_pc = "returned" =>
    /\ Len(chunk_calls) = Len(chunk_changed)
    /\ \A w \in 1..Len(chunk_changed) :
         LET L == chunk_changed[w]
         IN  /\ chunk_calls[w].code_range = <<WindowStart(L), WindowEnd(chunk_n, L)>>
             /\ chunk_calls[w].changed_lines = <<L - WindowStart(L) + 1>>
             /\ Len(chunk_remapped[w]) = Len(chunk_outs[w])
             /\ \A i \in 1..Len(chunk_outs[w]) :
                  /\ chunk_remapped[w][i]["line"] = chunk_outs[w][i]["line"] + WindowStart(L) - 1
                  /\ \E r \in 1..Len(chunk_result) :
                       ClaimSignature(chunk_result[r]) = ClaimSignature(chunk_remapped[w][i])
    /\ \A r \in 1..Len(chunk_result) :
         \E w \in 1..Len(chunk_changed) : \E i \in 1..Len(chunk_remapped[w]) :
           chunk_result[r] = chunk_remapped[w][i]
    /\ (chunk_n = 600 /\ chunk_changed = <<300>>) =>
         /\ chunk_calls = << [code_range |-> <<295, 305>>, changed_lines |-> <<6>>] >>
         /\ \A i \in 1..Len(chunk_outs[1]) :
              chunk_outs[1][i]["line"] = 6 =>
                \E r \in 1..Len(chunk_result) : chunk_result[r]["line"] = 300

\* the scenario: 600 lines, changed line 300, an issue returned at local line 6
C22_Witness ==
  /\ chunk_pc = "returned"
  /\ chunk_n = 600
  /\ chunk_changed = <<300>>
  /\ chunk_outs = << <<IssueOk>> >>
  /\ chunk_result = << [IssueOk EXCEPT !["line"] = 300] >>

\* ------------------------------------------------------------------------
\* langgraph_agent.py: LangGraphCodeReviewAgent.review, the workflow
\* initialize -> process_files -> format_results.  _analyze_single_file is
\* taken here by its result, a deduplicated list.
\* ------------------------------------------------------------------------

\* file_results[name] = issues: a new key is appended, an existing key keeps
\* its position and gets the new value
FileResultsAssign(results, name, issues) ==
  IF \E i \in 1..Len(results) : results[i].name = name
  THEN [i \in 1..Len(results) |->
          IF results[i].name = name THEN [name |-> name, issues |-> issues]
          ELSE results[i]]
  ELSE Append(results, [name |-> name, issues |-> issues])

\* sum(1 for ... if issue.get('type') == 'bug') over one issue list
RECURSIVE GetBugCount(_)
GetBugCount(issue_list) ==
  IF issue_list = <<>> THEN 0
  ELSE (IF Get(issue_list[1], "type", "") = "bug" THEN 1 ELSE 0)
       + GetBugCount(Tail(issue_list))

RECURSIVE GetCriticalIssues(_)
GetCriticalIssues(reviews) ==
  IF reviews = <<>> THEN 0
  ELSE GetBugCount(reviews[1].issues) + GetCriticalIssues(Tail(reviews))

\* final_results of _format_results; the items of file_results are already
\* the {name, issues} entries
_format_results(results) ==
  [task_id |-> "uuid4",
   status |-> "completed",
   results |-> [files |-> results,
                summary |-> [total_files |-> Len(results),
                             total_issues |-> total_issues(results),
                             critical_issues |-> GetCriticalIssues(results)]]]

\* the lists _analyze_single_file may return
SingleFileResults ==
  {deduplicate_issues(found) : found \in SeqsUpTo(GraphPool, MaxIssues)}

FileApp == [file_name |-> NameAppPy, patch |-> PatchOneAddition]

FileReadme == [file_name |-> NameReadme, patch |-> PatchTwoHunks]

\* a second entry with the name of the first
FileAppAgain == [file_name |-> NameAppPy, patch |-> PatchTwoHunks]

WorkflowPayloads ==
  {<<>>, <<FileApp>>, <<FileApp, FileReadme>>, <<FileApp, FileAppAgain>>,
   <<FileApp, FileReadme, FileAppAgain>>}

InitWorkflow ==
  /\ wf_pc = "initialize"
  /\ wf_files_data = <<>>
  /\ wf_index = 0
  /\ file_results = <<>>
  /\ final_results = NoResults
  /\ wf_return = NoResults
  /\ PipeIdle
  /\ PostIdle
  /\ ReviewIdle
  /\ GraphIdle
  /\ DiffIdle
  /\ ChunkIdle
  /\ RunsIdle

\* _initialize_state: files_data is the payload's file_info
InitializeState ==
  /\ wf_pc = "initialize"
  /\ wf_files_data' \in WorkflowPayloads
  /\ wf_index' = 1
  /\ wf_pc' = "process_files"
  /\ UNCHANGED <<file_results, final_results, wf_return>>
  /\ UNCHANGED <<pipeVars, postVars, reviewVars, graphVars, diffVars, chunkVars, runVars>>

\* one iteration of the for loop of _process_all_files
ProcessFile ==
  /\ wf_pc = "process_files"
  /\ wf_index <= Len(wf_files_data)
  /\ \E found \in SingleFileResults :
       file_results' =
         FileResultsAssign(file_results, wf_files_data[wf_index].file_name, found)
  /\ wf_index' = wf_index + 1
  /\ UNCHANGED <<wf_pc, wf_files_data, final_results, wf_return>>
  /\ UNCHANGED <<pipeVars, postVars, reviewVars, graphVars, diffVars, chunkVars, runVars>>

\* _process_all_files returns the state with file_results
ProcessAllFilesReturns ==
  /\ wf_pc = "process_files"
  /\ wf_index > Len(wf_files_data)
  /\ wf_pc' = "format_results"
  /\ UNCHANGED <<wf_files_data, wf_index, file_results, final_results, wf_return>>
  /\ UNCHANGED <<pipeVars, postVars, reviewVars, graphVars, diffVars, chunkVars, runVars>>

\* _format_results
FormatResults ==
  /\ wf_pc = "format_results"
  /\ final_results' = _format_results(file_results)
  /\ wf_pc' = "invoked"
  /\ UNCHANGED <<wf_files_data, wf_index, file_results, wf_return>>
  /\ UNCHANGED <<pipeVars, postVars, reviewVars, graphVars, diffVars, chunkVars, runVars>>

\* review returns final_state.get('final_results')
WorkflowReviewReturns ==
  /\ wf_pc = "invoked"
  /\ wf_return' = final_results
  /\ wf_pc' = "end"
  /\ UNCHANGED <<wf_files_data, wf_index, file_results, final_results>>
  /\ UNCHANGED <<pipeVars, postVars, reviewVars, graphVars, diffVars, chunkVars, runVars>>

NextWorkflow ==
  \/ InitializeState
  \/ ProcessFile
  \/ ProcessAllFilesReturns
  \/ FormatResults
  \/ WorkflowReviewReturns

SpecWorkflow == InitWorkflow /\ [][NextWorkflow]_vars

\* C17: the Report of LangGraphCodeReviewAgent.review has one FileReview for
\* each entry of file_info, in input order, and total_files is the number of
\* input files, also when two entries carry the same file_name.
C17_OneFileReviewPerInputFile ==
  wf_pc = "end" =>
    /\ Len(wf_return.results.files) = Len(wf_files_data)
    /\ \A f \in 1..Len(wf_files_data) :
         f <= Len(wf_return.results.files)
           => wf_return.results.files[f].name = wf_files_data[f].file_name
    /\ wf_return.results.summary.total_files = Len(wf_files_data)

\* ------------------------------------------------------------------------
\* Claims about AnalysisPipeline.analyze_file
\* ------------------------------------------------------------------------

\* position of an analyzer type in self.analyzers
AnalyzerIndex(type) == CHOOSE i \in 1..Len(analyzers) : analyzers[i].type = type

\* the issues the analyzers returned to the loop, over all analyzers
ReturnedIssues ==
  UNION { ToSet(analyzer_results[a].issues) : a \in 1..Len(analyzer_results) }

\* C1: every issue analyze_file returns has its line in the changed_lines
\* argument, on the direct and on the chunked path, whatever the analyzers
\* returned.
C1_ReturnedIssuesOnChangedLines ==
  pc = "done" =>
    \A i \in 1..Len(final_issues) :
      /\ Has(final_issues[i], "line")
      /\ final_issues[i]["line"] \in ToSet(changed_lines)

\* a chunked run returned issues although an analyzer had reported an issue
\* that, remapped, lies outside changed_lines
C1_Witness ==
  /\ pc = "done"
  /\ is_large_file(code_lines)
  /\ final_issues # <<>>
  /\ \E issue \in ReturnedIssues :
       Has(issue, "line") /\ issue["line"] \notin ToSet(changed_lines)

\* C3: an analyzer whose analyze call raises is treated as having returned an
\* empty list: analyze_file goes on with the next analyzer (or has returned)
\* and holds [] as that analyzer's result.
C3_RaisingAnalyzerTreatedAsEmpty ==
  raised_by # "" =>
    /\ pc \in {"loop", "done"}
    /\ \E a \in 1..Len(analyzer_results) :
         analyzer_results[a] = [type |-> raised_by, issues |-> <<>>]

\* C6: the upstream issue lists handed to the analyze call of the third
\* analyzer hold no issue whose line is outside changed_lines.
C6_UpstreamOnChangedLines ==
  \A c \in 1..Len(calls) :
    (Len(analyzers) >= 3 /\ calls[c].type = analyzers[3].type) =>
      \A issue \in ToSet(calls[c].upstream.lint_issues)
                   \cup ToSet(calls[c].upstream.heuristic_issues)
                   \cup ToSet(calls[c].upstream.bug_issues)
                   \cup ToSet(calls[c].upstream.perf_issues) :
        LineIn(issue, changed_lines)

\* C7: the analyzers are invoked one after another in the insertion order of
\* self.analyzers, and the context an analyze call of the k-th analyzer sees
\* holds exactly the results of analyzers 1..k-1, in order: it is empty for the
\* first analyzer and has no entry for the k-th or a later one.
C7_SequentialAccumulatedContext ==
  \A c \in 1..Len(calls) :
    LET k == AnalyzerIndex(calls[c].type)
    IN  /\ k - 1 <= Len(analyzer_results)
        /\ calls[c].context = SubSeq(analyzer_results, 1, k - 1)
        /\ \A i \in 1..Len(calls[c].context) : calls[c].context[i].type = analyzers[i].type
        /\ \A d \in 1..(c - 1) : AnalyzerIndex(calls[d].type) <= k

\* the third analyzer was called and saw the non-empty results of the two
\* analyzers before it
C7_Witness ==
  \E c \in 1..Len(calls) :
    /\ AnalyzerIndex(calls[c].type) = 3
    /\ Len(calls[c].context) = 2
    /\ calls[c].context[1].issues # <<>>
    /\ calls[c].context[2].issues # <<>>

\* the four categories of the Issue data model
IssueTypes == {"style", "bug", "performance", "best_practice"}

\* C11: every issue analyze_file returns satisfies the Issue data model: a
\* positive line, a non-empty description, a non-empty suggestion and a type
\* among style, bug, performance, best_practice.
C11_ReturnedIssuesSatisfyDataModel ==
  pc = "done" =>
    \A i \in 1..Len(final_issues) :
      /\ final_issues[i]["line"] >= 1
      /\ final_issues[i]["description"] # <<>>
      /\ final_issues[i]["suggestion"] # ""
      /\ final_issues[i]["type"] \in IssueTypes

\* the calls made for the analyzer at position k of self.analyzers
CallsOf(k) == { c \in 1..Len(calls) : calls[c].type = analyzers[k].type }

\* C21: an analyzer invocation is chunked exactly when the code has more than
\* 500 lines.  Code of 500 lines or fewer reaches an analyzer in exactly one
\* call per invoked analyzer, on the full code and the full changed-line list;
\* code of 501 lines or more is never passed whole to an analyzer.
C21_ChunkedExactlyAboveThreshold ==
  /\ code_lines <= LARGE_FILE_THRESHOLD =>
        /\ \A c \in 1..Len(calls) :
              /\ calls[c].code_range = <<1, code_lines>>
              /\ calls[c].changed_lines = changed_lines
        /\ \A k \in 1..Len(analyzers) :
              Dispatched(analyzers[k]) =>
                /\ Cardinality(CallsOf(k)) <= 1
                /\ k < next_analyzer => Cardinality(CallsOf(k)) = 1
  /\ code_lines > LARGE_FILE_THRESHOLD =>
        \A c \in 1..Len(calls) :
          /\ calls[c].code_range # <<1, code_lines>>
          /\ calls[c].code_range[2] - calls[c].code_range[1] + 1 <= 2 * CONTEXT_SIZE + 1

\* a file of exactly 500 lines went through all three analyzers, one whole-file
\* call each
C21_Witness ==
  /\ pc = "done"
  /\ code_lines = LARGE_FILE_THRESHOLD
  /\ Len(calls) = 3

\* the issues of a list whose line, in file coordinates, is L
OnFileLine(issue_list, L) ==
  SelectSeq(issue_list, LAMBDA issue : Has(issue, "line") /\ issue["line"] = L)

\* C23: when a file of more than 500 lines is analyzed in chunks, the upstream
\* context issues that reach the analyzer for the window of changed line L are
\* exactly the upstream issues whose line in the file is L; the context is
\* never matched against the chunk-local number L - start + 1.
C23_ChunkContextInFileCoordinates ==
  code_lines > LARGE_FILE_THRESHOLD =>
    \A c \in 1..Len(calls) :
      LET L == calls[c].code_range[1] + calls[c].changed_lines[1] - 1
      IN  /\ calls[c].relevant.lint_issues = OnFileLine(ContextGet(calls[c].context, "lint"), L)
          /\ calls[c].relevant.bug_issues = OnFileLine(ContextGet(calls[c].context, "bug"), L)

\* the stages of a run on a file of at most 500 lines are linear: the results
\* stored so far are those of analyzers 1..next_analyzer-1, one each and in
\* order, no analyzer has been called twice, and an invoked analyzer whose
\* stage is over was called once
LinearStages ==
  (pc \in {"loop", "done", "raised"} /\ code_lines <= LARGE_FILE_THRESHOLD) =>
    /\ Len(analyzer_results) = next_analyzer - 1
    /\ \A k \in 1..Len(analyzer_results) : analyzer_results[k].type = analyzers[k].type
    /\ \A k \in 1..Len(analyzers) :
         /\ Cardinality(CallsOf(k)) <= 1
         /\ (k < next_analyzer /\ Dispatched(analyzers[k])) => Cardinality(CallsOf(k)) = 1
         /\ k > next_analyzer => CallsOf(k) = {}
    /\ \A c, d \in 1..Len(calls) :
         c < d => AnalyzerIndex(calls[c].type) < AnalyzerIndex(calls[d].type)

\* post-processing has run only after the last analyzer returned
PostProcessLast ==
  pc = "done" =>
    /\ next_analyzer = Len(analyzers) + 1
    /\ Len(analyzer_results) = Len(analyzers)

\* inside the loop the call can always take its next step: an iteration for the
\* analyzer at hand, or steps 3 and 4 once the loop is exhausted
LoopCanStep ==
  pc = "loop" =>
    \/ ENABLED RunAnalyzerDirect
    \/ ENABLED RunAnalyzerNotDispatched
    \/ ENABLED RunAnalyzerChunked
    \/ next_analyzer > Len(analyzers)

MetadataFields == {"file_language", "total_file_lines"}

\* C27: the enrichment step is presentation only: it returns one issue for
\* every issue it is given, in the same order, adds only the fields
\* file_language and total_file_lines, and leaves every other field of each
\* issue as it was.
C27_EnrichmentPresentationOnly ==
  pc = "done" =>
    /\ Len(final_issues) = Len(processed_issues)
    /\ \A i \in 1..Len(final_issues) :
         i <= Len(processed_issues) =>
           /\ DOMAIN final_issues[i] = DOMAIN processed_issues[i] \cup MetadataFields
           /\ \A key \in DOMAIN processed_issues[i] \ MetadataFields :
                final_issues[i][key] = processed_issues[i][key]

\* the part of C27 about the number of issues alone
C27_OneIssuePerIssueGiven ==
  pc = "done" => Len(final_issues) = Len(processed_issues)

\* C30: if fetching the PR data or running the analysis raised inside
\* analyze_pr_task, the task's final stored state is FAILURE, get_task_status
\* reports status 'failed' for it and never 'completed', and get_task_results
\* never returns a payload with status 'completed' for it.
C30_FailedTaskStoredAsFailure ==
  (task_pc \in {"returned", "stored"} /\ task_return.status = "failed") =>
    /\ task_pc = "stored" => task_state = "FAILURE"
    /\ get_task_status(task_state).status = "failed"
    /\ get_task_results(task_state, task_return).status # "completed"

\* an issue an analyzer returned to the loop that is on a changed line, is not
\* generic for its analyzer and has line, description and suggestion
ValidFinding(a, issue) ==
  /\ \A key \in {"line", "description", "suggestion"} : Has(issue, key)
  /\ issue["line"] \in ToSet(changed_lines)
  /\ ~GenericWording([type |-> analyzer_results[a].type, issue |-> issue])

\* C29: no valid finding is lost to an invalid one.  For every issue an
\* analyzer returned that is on a changed line, is not generic for its
\* analyzer and has line, description and suggestion (and, here, a type as
\* well, so that every later step accepts it), the list analyze_file returns
\* holds an issue with the same signature: de-duplication never lets an issue
\* that is filtered out afterwards suppress a valid one.
C29_ValidFindingNotLost ==
  pc = "done" =>
    \A a \in 1..Len(analyzer_results) :
      \A issue \in ToSet(analyzer_results[a].issues) :
        (ValidFinding(a, issue) /\ Has(issue, "type")) =>
          \E i \in 1..Len(final_issues) :
            ClaimSignature(final_issues[i]) = ClaimSignature(issue)

\* ------------------------------------------------------------------------
\* Two calls of analyze_file on one AnalysisPipeline instance, interleaved at
\* the granularity of one loop iteration.  What the calls share is the
\* instance (self.analyzers); preprocessed_data, analyzer_results and
\* context_issues are local variables of each call.
\* ------------------------------------------------------------------------

Calls == 1..2

\* the (code_lines, changed_lines) arguments of each call
CallInputs == << {<<10, <<6>>>>}, {<<600, <<300>>>>, <<10, <<8>>>>} >>

\* what an analyzer may report for the file of each call
CallPool == << {IssueOk}, {IssueOffLine} >>

NotCalled ==
  [pc |-> "idle", code_lines |-> 0, changed_lines |-> <<>>, next_analyzer |-> 0,
   analyzer_results |-> <<>>, context_issues |-> <<>>, calls |-> <<>>,
   final_issues |-> <<>>]

\* lines 221-227: the locals of a call that has just been entered
NewFrame(input) ==
  [pc |-> "loop", code_lines |-> input[1], changed_lines |-> input[2],
   next_analyzer |-> 1, analyzer_results |-> <<>>, context_issues |-> <<>>,
   calls |-> <<>>, final_issues |-> <<>>]

\* a faulty variant of the stores, which keeps the context on the instance:
\* every call's context gets the issues
FrameStoreShared(fs, r, made, issues) ==
  [q \in DOMAIN fs |->
     IF q = r
     THEN [fs[q] EXCEPT
             !.analyzer_results = DictSet(@, pipeline_analyzers[fs[r].next_analyzer].type, issues),
             !.context_issues = DictSet(@, pipeline_analyzers[fs[r].next_analyzer].type, issues),
             !.calls = @ \o made,
             !.next_analyzer = @ + 1]
     ELSE [fs[q] EXCEPT
             !.context_issues = DictSet(@, pipeline_analyzers[fs[r].next_analyzer].type, issues)]]

\* lines 239-242 in call r: its two dicts get the issues, its loop moves on
FrameStore(fs, r, made, issues) ==
  [fs EXCEPT
     ![r].analyzer_results = DictSet(@, pipeline_analyzers[fs[r].next_analyzer].type, issues),
     ![r].context_issues = DictSet(@, pipeline_analyzers[fs[r].next_analyzer].type, issues),
     ![r].calls = @ \o made,
     ![r].next_analyzer = @ + 1]

InitRuns ==
  /\ pipeline_analyzers \in {DemoAnalyzers, ChainAnalyzers}
  /\ frames = [r \in Calls |-> NotCalled]
  /\ PipeIdle
  /\ PostIdle
  /\ ReviewIdle
  /\ GraphIdle
  /\ DiffIdle
  /\ ChunkIdle
  /\ WorkflowIdle

\* a call of analyze_file is entered
EnterCall ==
  /\ \E r \in Calls :
       /\ frames[r].pc = "idle"
       /\ \E input \in CallInputs[r] :
            frames' = [frames EXCEPT ![r] = NewFrame(input)]
  /\ UNCHANGED pipeline_analyzers
  /\ UNCHANGED <<pipeVars, postVars, reviewVars, graphVars, diffVars, chunkVars,
                 workflowVars>>

\* one loop iteration of one call: the analysis function is called once, or
\* once per changed line for a file of more than 500 lines, and the result is
\* stored; an analyzer _call_pure_analyzer does not dispatch gives []
CallIteration ==
  /\ \E r \in Calls :
       LET f == frames[r]
           analyzer == pipeline_analyzers[f.next_analyzer]
       IN  /\ f.pc = "loop"
           /\ f.next_analyzer <= Len(pipeline_analyzers)
           /\ IF ~Dispatched(analyzer)
              THEN frames' = FrameStore(frames, r, <<>>, <<>>)
              ELSE IF is_large_file(f.code_lines)
              THEN \E outs \in [1..Len(f.changed_lines) ->
                                   SeqsUpTo(CallPool[r], MaxIssues)] :
                     frames' = FrameStore(frames, r,
                                 ChunkCalls(analyzer, f.code_lines, f.changed_lines,
                                            f.context_issues, Len(f.changed_lines)),
                                 analyze_large_file_chunks(f.changed_lines, outs))
              ELSE \E issues \in SeqsUpTo(CallPool[r], MaxIssues) :
                     frames' = FrameStore(frames, r,
                                 <<AnalyzeCall(analyzer, <<1, f.code_lines>>,
                                               f.changed_lines, f.context_issues)>>,
                                 issues)
  /\ UNCHANGED pipeline_analyzers
  /\ UNCHANGED <<pipeVars, postVars, reviewVars, graphVars, diffVars, chunkVars,
                 workflowVars>>

\* an analyze call of one call raises and that call of analyze_file ends
CallRaises ==
  /\ \E r \in Calls :
       /\ frames[r].pc = "loop"
       /\ frames[r].next_analyzer <= Len(pipeline_analyzers)
       /\ Dispatched(pipeline_analyzers[frames[r].next_analyzer])
       /\ frames' = [frames EXCEPT ![r].pc = "raised"]
  /\ UNCHANGED pipeline_analyzers
  /\ UNCHANGED <<pipeVars, postVars, reviewVars, graphVars, diffVars, chunkVars,
                 workflowVars>>

\* steps 3 and 4 and the return of one call
CallReturns ==
  /\ \E r \in Calls :
       LET f == frames[r]
       IN  /\ f.pc = "loop"
           /\ f.next_analyzer > Len(pipeline_analyzers)
           /\ frames' =
                [frames EXCEPT
                   ![r].pc = "done",
                   ![r].final_issues =
                      validate_and_enrich_results(
                        process_analyzer_results(f.analyzer_results, f.changed_lines),
                        [language |-> "python", total_lines |-> f.code_lines])]
  /\ UNCHANGED pipeline_analyzers
  /\ UNCHANGED <<pipeVars, postVars, reviewVars, graphVars, diffVars, chunkVars,
                 workflowVars>>

NextRuns ==
  \/ EnterCall
  \/ CallIteration
  \/ CallRaises
  \/ CallReturns

SpecRuns == InitRuns /\ [][NextRuns]_vars

\* the issues of a context dict
ContextIssues(context) ==
  UNION { ToSet(context[a].issues) : a \in 1..Len(context) }

\* the issues the analyzers have produced so far in call r
ProducedIn(r) == ContextIssues(frames[r].analyzer_results)

\* C28: the context of analyze_file is created empty at the start of every
\* call and is private to it: with two calls on one AnalysisPipeline instance,
\* one after the other or interleaved, the first analyzer of each call gets an
\* empty context and every context passed to an analyzer holds only issues
\* produced in its own call, none produced while analyzing the other file.
C28_ContextPrivateToCall ==
  frames # <<>> =>
    \A r \in Calls :
      /\ frames[r].pc = "loop" /\ frames[r].next_analyzer = 1 =>
           frames[r].context_issues = <<>>
      /\ ContextIssues(frames[r].context_issues) \subseteq ProducedIn(r)
      /\ \A c \in 1..Len(frames[r].calls) :
           /\ ContextIssues(frames[r].calls[c].context) \subseteq ProducedIn(r)
           /\ \A q \in Calls \ {r} :
                ContextIssues(frames[r].calls[c].context) \cap ProducedIn(q) = {}

\* the two calls were interleaved: each has issues of its own in its context
\* and made a call with a non-empty context while the other was in its loop
C28_Witness ==
  /\ frames # <<>>
  /\ \A r \in Calls :
       /\ frames[r].pc = "loop"
       /\ ProducedIn(r) # {}
       /\ \E c \in 1..Len(frames[r].calls) : frames[r].calls[c].context # <<>>
       /\ \E c \in 1..Len(frames[r].calls) :
            ContextIssues(frames[r].calls[c].context) # {}

====
